---- MODULE Spec2Model ----
(***************************************************************************)
(* A model of meshterm's message persistence and conversation-state        *)
(* engine: LogStorage (src/meshterm/storage.py), NodeStore and             *)
(* MessageBuffer (src/meshterm/state.py).                                  *)
(*                                                                         *)
(* Tables are sets of rows; a row is a record with the columns of SCHEMA.  *)
(* Python's None is NoneInt for integer columns and NoneStr for text.      *)
(* Each specification below drives one group of operations with inputs     *)
(* drawn from small sets; the variables a group does not touch stay at     *)
(* their initial values.                                                   *)
(***************************************************************************)
EXTENDS Integers, Sequences, FiniteSets, TLC

VARIABLES
    packets,        \* table packets: set of rows
    packets_seq,    \* sqlite_sequence entry of packets (AUTOINCREMENT)
    reactions,      \* table reactions: set of rows
    reactions_seq,  \* sqlite_sequence entry of reactions
    reply_refs,     \* table reply_refs: set of rows
    reply_refs_seq, \* sqlite_sequence entry of reply_refs
    db_nodes,       \* table nodes: node_id -> data
    now,            \* time.time()
    ret,            \* the last call: [op, args, val]
    run,            \* the caller's current run of identical store_reaction calls
    issued,         \* the ids store_packet has returned, in call order
    pager,          \* a caller loading history page by page
    nodes,          \* NodeStore._nodes: node_id -> attributes
    heap,           \* the packet dicts the buffer's entries and pending index refer to
    messages,       \* MessageBuffer._messages: the mirror, a deque of entries
    pending,        \* MessageBuffer._pending: request_id -> PendingMessage
    emitted,        \* the events the last call notified, in order
    tracked,        \* per sent packet: its row id and the outcomes it was resolved with
    added,          \* the entries the mirror was given since its last clear, in order
    listeners,      \* Observable._listeners: the subscribed callbacks, in order
    calls,          \* the callbacks the last notify invoked, in order, with their arguments
    ui,             \* the chat input's submit handler: where it stands in its code
    radio,          \* the request ids the radio has sent and not yet reported on
    seen,           \* what a subscriber that re-queries the store saw during the last notification
    panel           \* LogPanel: the displayed entries and the paging state

vars == <<packets, packets_seq, reactions, reactions_seq, reply_refs,
          reply_refs_seq, db_nodes, now, ret, run, issued, pager, nodes,
          heap, messages, pending, emitted, tracked, added, listeners, calls,
          ui, radio, seen, panel>>

\* What no LogStorage method touches.
beyondStore == <<pager, nodes, heap, messages, pending, emitted, tracked,
                 added, listeners, calls, ui, radio, seen, panel>>

storeVars == <<packets, packets_seq, reactions, reactions_seq, reply_refs,
               reply_refs_seq, db_nodes>>

(***************************************************************************)
(* Values                                                                  *)
(***************************************************************************)
NoneInt == 0 - 1
NoneStr == "None"

\* A node id as callers pass it: an int (node number) or a str.
IntId(n) == [t |-> "int", v |-> n]
StrId(s) == [t |-> "str", s |-> s]
\* The node number hi * 2^16 + lo, for numbers beyond the integers of the
\* model checker (the broadcast number 0xffffffff).
WideId(hi, lo) == [t |-> "wide", hi |-> hi, lo |-> lo]

HexDigits == <<"0", "1", "2", "3", "4", "5", "6", "7",
               "8", "9", "a", "b", "c", "d", "e", "f">>

RECURSIVE Hex(_)
Hex(n) == IF n < 16 THEN HexDigits[n + 1]
          ELSE Hex(n \div 16) \o HexDigits[(n % 16) + 1]

RECURSIVE HexLen(_)
HexLen(n) == IF n < 16 THEN 1 ELSE 1 + HexLen(n \div 16)

RECURSIVE Zeros(_)
Zeros(k) == IF k <= 0 THEN "" ELSE "0" \o Zeros(k - 1)

\* formatting.format_node_id: f"!{node_id:08x}" for an int, str() otherwise.
format_node_id(node_id) ==
    IF node_id.t = "int"
    THEN "!" \o Zeros(8 - HexLen(node_id.v)) \o Hex(node_id.v)
    ELSE IF node_id.t = "wide"
    THEN "!" \o Zeros(4 - HexLen(node_id.hi)) \o Hex(node_id.hi)
             \o Zeros(4 - HexLen(node_id.lo)) \o Hex(node_id.lo)
    ELSE node_id.s

\* The row a SELECT ... fetchone() yields: rows come in rowid order.
FirstRow(rows) == CHOOSE x \in rows : \A y \in rows : x.id <= y.id

NoCall == [op |-> "none", args |-> <<>>, val |-> NoneInt]
NoRun == [n |-> 0]
NoPager == [pc |-> "idle"]

(***************************************************************************)
(* Reactions: LogStorage.store_reaction                                    *)
(***************************************************************************)
\* SELECT id FROM reactions WHERE message_db_id = ? AND reactor_node = ? AND emoji = ?
ReactionMatchNoEmoji(rows, m, rn, e) ==
    {x \in rows : x.message_db_id = m /\ x.reactor_node = rn}

ReactionMatch(rows, m, rn, e) ==
    {x \in rows : x.message_db_id = m /\ x.reactor_node = rn /\ x.emoji = e}

\* UNIQUE(message_db_id, reactor_node, emoji)
ReactionsUnique(rows) ==
    \A x, y \in rows :
        (x.message_db_id = y.message_db_id /\ x.reactor_node = y.reactor_node
         /\ x.emoji = y.emoji) => x = y

\* The tables and the return value after store_reaction(m, p, reactor, e, ts).
store_reaction(rows, seq, m, p, reactor, e, ts) ==
    LET rn == format_node_id(reactor)
        existing == ReactionMatch(rows, m, rn, e)
        new == [id |-> seq + 1, message_db_id |-> m, message_packet_id |-> p,
                reactor_node |-> rn, emoji |-> e, timestamp |-> ts]
    IN  IF existing # {}
        THEN [rows |-> {x \in rows : x.id # FirstRow(existing).id},
              seq |-> seq, val |-> FALSE, raised |-> FALSE]
        ELSE IF ReactionsUnique(rows \cup {new})
        THEN [rows |-> rows \cup {new}, seq |-> seq + 1, val |-> TRUE,
              raised |-> FALSE]
        ELSE [rows |-> rows, seq |-> seq, val |-> NoneInt, raised |-> TRUE]

Triple(m, reactor, e) == <<m, format_node_id(reactor), e>>
TripleOf(x) == <<x.message_db_id, x.reactor_node, x.emoji>>
RowsOfTriple(rows, t) == {x \in rows : TripleOf(x) = t}

\* The caller's view of a run of identical calls (test_store_reaction_toggle_off):
\* the triple, whether it was present before the first call, the rows of the
\* other triples before the first call, and the number of calls so far.
NextRun(m, reactor, e) ==
    LET t == Triple(m, reactor, e)
    IN  IF run.n > 0 /\ run.triple = t
        THEN [run EXCEPT !.n = run.n + 1]
        ELSE [n |-> 1, triple |-> t,
              before |-> RowsOfTriple(reactions, t) # {},
              others |-> reactions \ RowsOfTriple(reactions, t)]

StoreReaction(m, p, reactor, e) ==
    LET r == store_reaction(reactions, reactions_seq, m, p, reactor, e, now)
    IN  /\ reactions' = r.rows
        /\ reactions_seq' = r.seq
        /\ ret' = [op |-> "store_reaction", args |-> <<m, p, reactor, e>>,
                   val |-> r.val, raised |-> r.raised]
        /\ run' = NextRun(m, reactor, e)
        /\ UNCHANGED <<packets, packets_seq, reply_refs, reply_refs_seq,
                       db_nodes, now, issued, beyondStore>>

(***************************************************************************)
(* Packets: LogStorage.store_packet, clear_messages, clear_all_data        *)
(***************************************************************************)
\* A decoded packet as the decode layer hands it over (a Python dict):
\* id is the protocol packet id (NoneInt when the key is absent), from and to
\* are node ids, text is a sequence of characters, tx and delivered are the
\* '_tx' and '_delivered' keys ("None", "True" or "False"); error_reason is
\* the '_error_reason' key resolve_pending may add later.
Packet(id, from, to, channel, portnum, text, tx, delivered) ==
    [id |-> id, from |-> from, to |-> to, channel |-> channel,
     decoded |-> [portnum |-> portnum, text |-> text],
     tx |-> tx, delivered |-> delivered, error_reason |-> NoneStr]

\* packet.get('from', packet.get('fromId', '')) and the same for 'to': what
\* store_packet takes as the sender and the addressee.
FromOrFromId(packet) ==
    IF "from" \in DOMAIN packet THEN packet.from
    ELSE IF "fromId" \in DOMAIN packet THEN packet.fromId ELSE StrId("")

ToOrToId(packet) ==
    IF "to" \in DOMAIN packet THEN packet.to
    ELSE IF "toId" \in DOMAIN packet THEN packet.toId ELSE StrId("")

\* packet.get('from', '') and packet.get('to', ''): what the buffer's filters
\* take.
FromOrEmpty(packet) == IF "from" \in DOMAIN packet THEN packet.from ELSE StrId("")

ToOrEmpty(packet) == IF "to" \in DOMAIN packet THEN packet.to ELSE StrId("")

\* sqlite3's adaptation of an Optional[bool] parameter.
SqlBool(b) == IF b = "None" THEN NoneInt ELSE IF b = "True" THEN 1 ELSE 0

\* The row INSERT INTO packets writes; error_reason is not among its columns.
PacketRow(id, packet, timestamp) ==
    [id |-> id,
     timestamp |-> timestamp,
     packet_id |-> packet.id,
     from_node |-> format_node_id(FromOrFromId(packet)),
     to_node |-> format_node_id(ToOrToId(packet)),
     channel |-> packet.channel,
     portnum |-> packet.decoded.portnum,
     payload |-> packet.decoded,
     is_tx |-> IF packet.tx THEN 1 ELSE 0,
     delivered |-> SqlBool(packet.delivered),
     error_reason |-> NoneStr]

\* A rowid chosen without AUTOINCREMENT: one more than the largest rowid in
\* the table now.
NextRowidReuse(rows, seq) ==
    IF rows = {} THEN 1
    ELSE (CHOOSE x \in rows : \A y \in rows : y.id <= x.id).id + 1

\* INTEGER PRIMARY KEY AUTOINCREMENT: one more than the largest rowid the
\* table has ever held, which sqlite_sequence keeps across DELETE.
NextRowid(rows, seq) == seq + 1

\* A store that, besides writing the row, resets the delivery state of the
\* rows already there.
store_packet_resetting(packet, timestamp) ==
    LET id == NextRowid(packets, packets_seq)
    IN  [rows |-> {[x EXCEPT !.delivered = NoneInt, !.error_reason = NoneStr] :
                      x \in packets}
                  \cup {PacketRow(id, packet, timestamp)},
         seq |-> id, val |-> id]

store_packet(packet, timestamp) ==
    LET id == NextRowid(packets, packets_seq)
    IN  [rows |-> packets \cup {PacketRow(id, packet, timestamp)},
         seq |-> id, val |-> id]

StorePacket(packet) ==
    LET r == store_packet(packet, now)
    IN  /\ packets' = r.rows
        /\ packets_seq' = r.seq
        /\ issued' = Append(issued, [id |-> r.val, packet |-> packet])
        /\ ret' = [op |-> "store_packet", args |-> <<packet>>, val |-> r.val]
        /\ UNCHANGED <<reactions, reactions_seq, reply_refs, reply_refs_seq,
                       db_nodes, now, run, beyondStore>>

\* A clear that reports the rows deleted from all three tables.
clear_messages_all_rows ==
    [count |-> Cardinality(packets) + Cardinality(reactions) + Cardinality(reply_refs),
     packets |-> {}, reactions |-> {}, reply_refs |-> {}]

\* A clear that deletes the packets and the reactions and keeps the reply refs.
clear_messages_keeping_refs ==
    [count |-> Cardinality(packets), packets |-> {}, reactions |-> {},
     reply_refs |-> reply_refs]

\* SELECT COUNT(*) FROM packets, then DELETE FROM reply_refs; DELETE FROM
\* reactions; DELETE FROM packets.
clear_messages == [count |-> Cardinality(packets), packets |-> {},
                   reactions |-> {}, reply_refs |-> {}]

ClearMessages ==
    LET r == clear_messages
    IN  /\ packets' = r.packets
        /\ reactions' = r.reactions
        /\ reply_refs' = r.reply_refs
        /\ ret' = [op |-> "clear_messages", args |-> <<>>, val |-> r.count]
        /\ run' = NoRun
        /\ UNCHANGED <<packets_seq, reactions_seq, reply_refs_seq, db_nodes,
                       now, issued, beyondStore>>

EmptyNodes == [n \in {} |-> NoneInt]

\* clear_messages(), clear_nodes(), VACUUM.
ClearAllData ==
    LET r == clear_messages
    IN  /\ packets' = r.packets
        /\ reactions' = r.reactions
        /\ reply_refs' = r.reply_refs
        /\ db_nodes' = EmptyNodes
        /\ ret' = [op |-> "clear_all_data", args |-> <<>>,
                   val |-> [messages |-> r.count,
                            nodes |-> Cardinality(DOMAIN db_nodes)]]
        /\ run' = NoRun
        /\ UNCHANGED <<packets_seq, reactions_seq, reply_refs_seq, now, issued,
                       beyondStore>>

(***************************************************************************)
(* Reading rows back: LogStorage._row_to_stored_message                    *)
(***************************************************************************)
NoMessage == [id |-> NoneInt]

\* bool(row['delivered']) if row['delivered'] is not None else None
PyBool(v) == IF v = NoneInt THEN "None" ELSE IF v # 0 THEN "True" ELSE "False"

StoredMessage(row) ==
    [id |-> row.id,
     timestamp |-> row.timestamp,
     packet_id |-> row.packet_id,
     from_node |-> row.from_node,
     to_node |-> row.to_node,
     channel |-> row.channel,
     portnum |-> row.portnum,
     payload |-> row.payload,
     is_tx |-> row.is_tx # 0,
     delivered |-> PyBool(row.delivered),
     error_reason |-> IF row.is_tx # 0 /\ row.delivered \in {NoneInt, 0}
                      THEN row.error_reason ELSE NoneStr]

(***************************************************************************)
(* Reply links: find_message_by_packet_id, store_reply_ref, get_reply_ref, *)
(* get_parent_message                                                      *)
(***************************************************************************)
\* SELECT * FROM packets WHERE packet_id = ? LIMIT 1: packet_id has no index,
\* so the table is scanned in rowid order.
FindByPacketId(table, packet_id) ==
    LET rows == {x \in table : x.packet_id # NoneInt /\ x.packet_id = packet_id}
    IN  IF rows # {} THEN StoredMessage(FirstRow(rows)) ELSE NoMessage

find_message_by_packet_id(packet_id) == FindByPacketId(packets, packet_id)

\* A link stored without looking the parent up.
StoreReplyRefNoLookup(table, reply_db_id, parent_packet_id, timestamp) ==
    [rows |-> reply_refs \cup
              {[id |-> reply_refs_seq + 1, reply_db_id |-> reply_db_id,
                parent_db_id |-> NoneInt,
                parent_packet_id |-> parent_packet_id,
                timestamp |-> timestamp]},
     seq |-> reply_refs_seq + 1,
     val |-> NoneInt]

\* store_reply_ref when the packets table holds table.
StoreReplyRefIn(table, reply_db_id, parent_packet_id, timestamp) ==
    LET parent == FindByPacketId(table, parent_packet_id)
        parent_db_id == parent.id
    IN  [rows |-> reply_refs \cup
                  {[id |-> reply_refs_seq + 1, reply_db_id |-> reply_db_id,
                    parent_db_id |-> parent_db_id,
                    parent_packet_id |-> parent_packet_id,
                    timestamp |-> timestamp]},
         seq |-> reply_refs_seq + 1,
         val |-> parent_db_id]

store_reply_ref(reply_db_id, parent_packet_id, timestamp) ==
    StoreReplyRefIn(packets, reply_db_id, parent_packet_id, timestamp)

NoRef == [parent_db_id |-> NoneInt, parent_packet_id |-> NoneInt,
          timestamp |-> NoneInt, found |-> FALSE]

\* SELECT ... FROM reply_refs WHERE reply_db_id = ?, fetchone().
GetReplyRefIn(table, reply_db_id) ==
    LET rows == {x \in table : x.reply_db_id = reply_db_id}
    IN  IF rows # {}
        THEN [parent_db_id |-> FirstRow(rows).parent_db_id,
              parent_packet_id |-> FirstRow(rows).parent_packet_id,
              timestamp |-> FirstRow(rows).timestamp, found |-> TRUE]
        ELSE NoRef

get_reply_ref(reply_db_id) == GetReplyRefIn(reply_refs, reply_db_id)

\* get_parent_message without the fall back to the protocol id.
get_parent_message_no_fallback(reply_db_id) ==
    LET ref == get_reply_ref(reply_db_id)
        byId == {x \in packets : x.id = ref.parent_db_id}
    IN  IF ref.found /\ byId # {} THEN StoredMessage(FirstRow(byId)) ELSE NoMessage

get_parent_message(reply_db_id) ==
    LET ref == get_reply_ref(reply_db_id)
        byId == {x \in packets : x.id = ref.parent_db_id}
    IN  IF ~ref.found THEN NoMessage
        ELSE IF ref.parent_db_id \notin {NoneInt, 0} /\ byId # {}
        THEN StoredMessage(FirstRow(byId))
        ELSE find_message_by_packet_id(ref.parent_packet_id)

\* timestamp is what the caller read from time.time() for the link.
StoreReplyRef(reply_db_id, parent_packet_id, timestamp) ==
    LET r == store_reply_ref(reply_db_id, parent_packet_id, timestamp)
    IN  /\ now' = timestamp
        /\ reply_refs' = r.rows
        /\ reply_refs_seq' = r.seq
        /\ ret' = [op |-> "store_reply_ref",
                   args |-> <<reply_db_id, parent_packet_id, timestamp>>,
                   val |-> r.val]
        /\ UNCHANGED <<packets, packets_seq, reactions, reactions_seq,
                       db_nodes, run, issued, beyondStore>>

GetParentMessage(reply_db_id) ==
    /\ ret' = [op |-> "get_parent_message", args |-> <<reply_db_id>>,
               val |-> get_parent_message(reply_db_id)]
    /\ UNCHANGED <<storeVars, now, run, issued, beyondStore>>

(***************************************************************************)
(* History queries: get_text_messages, get_messages_for_node,              *)
(* get_all_packets                                                         *)
(***************************************************************************)
TextPortnums == {"TEXT_MESSAGE_APP", "1"}
BroadcastAddrs == {"^all", "!ffffffff"}

\* " AND id <= ?": the cursor row itself comes back.
BeforeInclusive(row, before_id) == before_id = NoneInt \/ row.id <= before_id

\* if before_id is not None: query += " AND id < ?"
Before(row, before_id) == before_id = NoneInt \/ row.id < before_id

LastRow(rows) == CHOOSE x \in rows : \A y \in rows : y.id <= x.id

\* ORDER BY id DESC LIMIT ?: a negative LIMIT is no limit.
RECURSIVE OrderDescLimit(_, _)
OrderDescLimit(rows, limit) ==
    IF rows = {} \/ limit = 0 THEN <<>>
    ELSE <<LastRow(rows)>> \o OrderDescLimit(rows \ {LastRow(rows)}, limit - 1)

\* [self._row_to_stored_message(row) for row in reversed(rows)]
ReversedMessages(rows) ==
    [i \in 1..Len(rows) |-> StoredMessage(rows[Len(rows) + 1 - i])]

TextWhere(row, channel, broadcast_only) ==
    /\ row.portnum \in TextPortnums
    /\ channel # NoneInt => row.channel = channel
    /\ broadcast_only => row.to_node \in BroadcastAddrs

get_text_messages(channel, limit, before_id, broadcast_only) ==
    ReversedMessages(OrderDescLimit(
        {x \in packets : TextWhere(x, channel, broadcast_only) /\ Before(x, before_id)},
        limit))

NodeWhere(row, node_id, channel, dm_only) ==
    LET node_id_str == format_node_id(node_id)
    IN  /\ row.portnum \in TextPortnums
        /\ IF dm_only
           THEN \/ row.to_node = node_id_str
                \/ (row.from_node = node_id_str /\ row.to_node \notin BroadcastAddrs)
           ELSE row.from_node = node_id_str \/ row.to_node = node_id_str
        /\ channel # NoneInt => row.channel = channel

get_messages_for_node(node_id, limit, before_id, channel, dm_only) ==
    ReversedMessages(OrderDescLimit(
        {x \in packets : NodeWhere(x, node_id, channel, dm_only) /\ Before(x, before_id)},
        limit))

\* if portnum_filter: an empty list filters nothing.
AllWhere(row, portnum_filter) ==
    portnum_filter # {} => row.portnum \in portnum_filter

get_all_packets(limit, before_id, portnum_filter) ==
    ReversedMessages(OrderDescLimit(
        {x \in packets : AllWhere(x, portnum_filter) /\ Before(x, before_id)},
        limit))

\* A history query as a caller chooses it: which method and which filter.
TextQuery(channel, broadcast_only) ==
    [kind |-> "text", channel |-> channel, broadcast_only |-> broadcast_only]
NodeQuery(node_id, channel, dm_only) ==
    [kind |-> "node", node_id |-> node_id, channel |-> channel, dm_only |-> dm_only]
AllQuery(portnum_filter) == [kind |-> "all", portnum_filter |-> portnum_filter]

HistoryQuery(q, limit, before_id) ==
    CASE q.kind = "text" ->
            get_text_messages(q.channel, limit, before_id, q.broadcast_only)
      [] q.kind = "node" ->
            get_messages_for_node(q.node_id, limit, before_id, q.channel, q.dm_only)
      [] q.kind = "all" ->
            get_all_packets(limit, before_id, q.portnum_filter)

\* The rows a query's filter selects, whatever the page.
Matches(q, row) ==
    CASE q.kind = "text" -> TextWhere(row, q.channel, q.broadcast_only)
      [] q.kind = "node" -> NodeWhere(row, q.node_id, q.channel, q.dm_only)
      [] q.kind = "all" -> AllWhere(row, q.portnum_filter)

(***************************************************************************)
(* A caller paging backwards through history, as LogPanel and the          *)
(* pagination test do: the first page has no before_id, each further page *)
(* takes the smallest id of the page before it, an empty page ends it, and *)
(* each page goes in front of what is loaded.                              *)
(***************************************************************************)
SmallestId(page) ==
    (CHOOSE m \in {page[i] : i \in 1..Len(page)} :
        \A i \in 1..Len(page) : m.id <= page[i].id).id

StartPaging(q, limit) ==
    /\ pager.pc = "idle"
    /\ pager' = [pc |-> "paging", q |-> q, limit |-> limit,
                 before_id |-> NoneInt, loaded |-> <<>>,
                 page |-> <<>>, page_before |-> NoneInt, pages |-> 0]
    /\ UNCHANGED <<storeVars, now, ret, run, issued, nodes, heap, messages,
                   pending, emitted, tracked,
                   added, listeners, calls,
                   ui, radio, seen, panel>>

LoadPage ==
    /\ pager.pc = "paging"
    /\ LET page == HistoryQuery(pager.q, pager.limit, pager.before_id)
       IN  pager' = IF page = <<>>
                    THEN [pager EXCEPT !.pc = "done", !.page = page,
                                       !.page_before = pager.before_id]
                    ELSE [pager EXCEPT !.loaded = page \o pager.loaded,
                                       !.page = page,
                                       !.page_before = pager.before_id,
                                       !.before_id = SmallestId(page),
                                       !.pages = pager.pages + 1]
    /\ UNCHANGED <<storeVars, now, ret, run, issued, nodes, heap, messages,
                   pending, emitted, tracked,
                   added, listeners, calls,
                   ui, radio, seen, panel>>

(***************************************************************************)
(* MessageBuffer: add, add_pending, resolve_pending, and                   *)
(* LogStorage.update_delivery_status                                       *)
(***************************************************************************)
\* Python dicts are shared by reference: heap[o] is the dict the mirror's
\* entry and the pending index both hold.
Event(type, data) == [type |-> type, data |-> data]

\* deque(maxlen=max_size).append: the oldest entry goes when the deque is full.
max_size == 2

\* A list append: nothing is ever dropped.
ListAppend(q, entry) == Append(q, entry)

DequeAppend(q, entry) ==
    IF Len(q) >= max_size THEN Append(Tail(q), entry) ELSE Append(q, entry)

\* MessageBuffer.add with a working store: the row is written, the entry
\* gets its _db_id, goes into the mirror and is notified as message_added.
add(packet) ==
    LET r == store_packet(packet, now)
        entry == [packet |-> Len(heap) + 1, timestamp |-> now, db_id |-> r.val]
    IN  [rows |-> r.rows, seq |-> r.seq, val |-> r.val,
         heap |-> Append(heap, packet),
         messages |-> DequeAppend(messages, entry),
         added |-> Append(added, entry),
         emitted |-> <<Event("message_added", entry)>>]

\* self._pending[request_id] = PendingMessage(...)
add_pending(request_id, packet, packet_id) ==
    [k \in DOMAIN pending \cup {request_id} |->
        IF k = request_id
        THEN [request_id |-> request_id, timestamp |-> now,
              packet |-> packet, packet_id |-> packet_id]
        ELSE pending[k]]

\* 1 if delivered else 0
SqlFlag(b) == IF b THEN 1 ELSE 0

\* An update that writes the delivered flag and forgets the reason.
update_delivered_only(rows, packet_id, delivered, error_reason) ==
    {IF x.packet_id # NoneInt /\ x.packet_id = packet_id /\ x.is_tx = 1
     THEN [x EXCEPT !.delivered = SqlFlag(delivered)]
     ELSE x : x \in rows}

\* UPDATE packets SET delivered = ?, error_reason = ?
\* WHERE packet_id = ? AND is_tx = 1
update_delivery_status(rows, packet_id, delivered, error_reason) ==
    {IF x.packet_id # NoneInt /\ x.packet_id = packet_id /\ x.is_tx = 1
     THEN [x EXCEPT !.delivered = SqlFlag(delivered), !.error_reason = error_reason]
     ELSE x : x \in rows}

PyStr(b) == IF b THEN "True" ELSE "False"

Truthy(v) == v # NoneInt /\ v # 0

\* resolve_pending taking the request id for the protocol packet id when
\* nothing is pending: the store is updated and the event sent all the same.
resolve_pending_unguarded(request_id, success, error_reason) ==
    [pending |-> [k \in DOMAIN pending \ {request_id} |-> pending[k]],
     heap |-> heap,
     rows |-> update_delivery_status(packets, request_id, success, error_reason),
     emitted |-> <<Event("delivery_updated", NoneInt)>>,
     val |-> NoneInt]

resolve_pending(request_id, success, error_reason) ==
    IF request_id \in DOMAIN pending
    THEN LET p == pending[request_id]
             o == p.packet
         IN  [pending |-> [k \in DOMAIN pending \ {request_id} |-> pending[k]],
              heap |-> [heap EXCEPT ![o].delivered = PyStr(success),
                                    ![o].error_reason =
                                        IF error_reason # NoneStr /\ error_reason # ""
                                        THEN error_reason ELSE @],
              rows |-> IF Truthy(p.packet_id)
                       THEN update_delivery_status(packets, p.packet_id, success,
                                                   error_reason)
                       ELSE packets,
              emitted |-> <<Event("delivery_updated", o)>>,
              val |-> o]
    ELSE [pending |-> pending, heap |-> heap, rows |-> packets,
          emitted |-> <<>>, val |-> NoneInt]

\* The caller's record of a resolution: the outcome a tracked packet got.
Outcome(success, error_reason) == [success |-> success, error_reason |-> error_reason]

ResolvePending(request_id, success, error_reason) ==
    LET r == resolve_pending(request_id, success, error_reason)
    IN  /\ pending' = r.pending
        /\ heap' = r.heap
        /\ packets' = r.rows
        /\ emitted' = r.emitted
        /\ ret' = [op |-> "resolve_pending",
                   args |-> <<request_id, success, error_reason>>, val |-> r.val]
        /\ tracked' = IF r.val # NoneInt /\ r.val \in DOMAIN tracked
                      THEN [tracked EXCEPT ![r.val].outcomes =
                               Append(@, Outcome(success, error_reason))]
                      ELSE tracked
        /\ UNCHANGED <<packets_seq, reactions, reactions_seq, reply_refs,
                       reply_refs_seq, db_nodes, now, run, issued, pager,
                       nodes, messages,
                       added, listeners, calls,
                       ui, radio, seen, panel>>

\* MeshtermApp.on_chat_input_message_submitted after a successful send that is
\* not a reply: the TX packet is added to the buffer and, when the radio gave
\* a request id, registered as pending under it.
TxPacket(request_id, dest) ==
    Packet(request_id, IntId(1), dest, 0, "TEXT_MESSAGE_APP", <<"h", "i">>, TRUE, "None")

SendText(request_id, dest) ==
    LET a == add(TxPacket(request_id, dest))
        o == Len(a.heap)
    IN  /\ packets' = a.rows
        /\ packets_seq' = a.seq
        /\ issued' = Append(issued, [id |-> a.val, packet |-> TxPacket(request_id, dest)])
        /\ heap' = a.heap
        /\ messages' = a.messages
        /\ added' = a.added
        /\ emitted' = a.emitted
        /\ pending' = IF Truthy(request_id)
                      THEN add_pending(request_id, o, request_id) ELSE pending
        /\ tracked' = IF Truthy(request_id)
                      THEN [k \in DOMAIN tracked \cup {o} |->
                               IF k = o THEN [db_id |-> a.val, outcomes |-> <<>>]
                               ELSE tracked[k]]
                      ELSE tracked
        /\ ret' = [op |-> "send_text", args |-> <<request_id, dest>>, val |-> a.val]
        /\ UNCHANGED <<reactions, reactions_seq, reply_refs, reply_refs_seq,
                       db_nodes, now, run, pager, nodes,
                       listeners, calls,
                       ui, radio, seen, panel>>

\* MessageBuffer.add of a packet the radio received.
Receive(packet) ==
    LET a == add(packet)
    IN  /\ packets' = a.rows
        /\ packets_seq' = a.seq
        /\ issued' = Append(issued, [id |-> a.val, packet |-> packet])
        /\ heap' = a.heap
        /\ messages' = a.messages
        /\ added' = a.added
        /\ emitted' = a.emitted
        /\ ret' = [op |-> "add", args |-> <<packet>>, val |-> a.val]
        /\ UNCHANGED <<reactions, reactions_seq, reply_refs, reply_refs_seq,
                       db_nodes, now, run, pager, nodes, pending, tracked,
                       listeners, calls,
                       ui, radio, seen, panel>>

\* MessageBuffer.get_text_messages: the mirror's entries, in order, that are
\* text messages, of the channel if one is given, broadcasts if asked for.
buffer_get_text_messages(channel, broadcast_only) ==
    SelectSeq(messages, LAMBDA m :
        LET packet == heap[m.packet]
        IN  /\ packet.decoded.portnum \in TextPortnums
            /\ (channel = NoneInt \/ packet.channel = channel)
            /\ (broadcast_only =>
                    format_node_id(ToOrEmpty(packet)) \in BroadcastAddrs))

\* MessageBuffer.get_text_messages_for_node
get_text_messages_for_node(node_id, channel, dm_only) ==
    LET node_id_str == format_node_id(node_id)
    IN  SelectSeq(messages, LAMBDA m :
            LET packet == heap[m.packet]
                from_id == format_node_id(FromOrEmpty(packet))
                to_id == format_node_id(ToOrEmpty(packet))
            IN  /\ packet.decoded.portnum \in TextPortnums
                /\ ~(channel # NoneInt /\ packet.channel # channel)
                /\ IF dm_only
                   THEN \/ to_id = node_id_str
                        \/ (from_id = node_id_str /\ to_id \notin BroadcastAddrs)
                   ELSE from_id = node_id_str \/ to_id = node_id_str)

BufferGetTextMessages(channel, broadcast_only) ==
    /\ ret' = [op |-> "buffer_get_text_messages", args |-> <<channel, broadcast_only>>,
               val |-> buffer_get_text_messages(channel, broadcast_only)]
    /\ UNCHANGED <<storeVars, now, run, issued, beyondStore>>

GetTextMessagesForNode(node_id, channel, dm_only) ==
    /\ ret' = [op |-> "get_text_messages_for_node",
               args |-> <<node_id, channel, dm_only>>,
               val |-> get_text_messages_for_node(node_id, channel, dm_only)]
    /\ UNCHANGED <<storeVars, now, run, issued, beyondStore>>

\* An add that lets the store's exception out: nothing is appended and
\* nothing is notified.
add_propagating(packet) ==
    [rows |-> packets, seq |-> packets_seq, val |-> NoneInt,
     heap |-> heap, messages |-> messages, added |-> added,
     emitted |-> <<>>, raised |-> TRUE]

\* MessageBuffer.add when store_packet raises: the except branch swallows the
\* exception, db_id stays None, the entry carries no _db_id, and the append
\* and the notification run as usual.
add_raising(packet) ==
    LET entry == [packet |-> Len(heap) + 1, timestamp |-> now]
    IN  [rows |-> packets, seq |-> packets_seq, val |-> NoneInt,
         heap |-> Append(heap, packet),
         messages |-> DequeAppend(messages, entry),
         added |-> Append(added, entry),
         emitted |-> <<Event("message_added", entry)>>,
         raised |-> FALSE]

\* MessageBuffer.add; ok says whether store_packet returns or raises.
AddPacket(packet, ok) ==
    LET a == IF ok THEN add(packet) ELSE add_raising(packet)
    IN  /\ packets' = a.rows
        /\ packets_seq' = a.seq
        /\ issued' = IF ok THEN Append(issued, [id |-> a.val, packet |-> packet])
                     ELSE issued
        /\ heap' = a.heap
        /\ messages' = a.messages
        /\ added' = a.added
        /\ emitted' = a.emitted
        /\ ret' = [op |-> "add_packet", args |-> <<packet, ok>>, val |-> a.val,
                   raised |-> IF ok THEN FALSE ELSE a.raised]
        /\ UNCHANGED <<reactions, reactions_seq, reply_refs, reply_refs_seq,
                       db_nodes, now, run, pager, nodes, pending, tracked,
                       listeners, calls,
                       ui, radio, seen, panel>>

\* MessageBuffer.clear: the mirror is emptied and "cleared" is notified; the
\* store and the pending index are left alone.
ClearBuffer ==
    /\ messages' = <<>>
    /\ added' = <<>>
    /\ emitted' = <<Event("cleared", NoneStr)>>
    /\ ret' = [op |-> "clear", args |-> <<>>, val |-> NoneInt]
    /\ UNCHANGED <<storeVars, now, run, issued, pager, nodes, heap, pending,
                   tracked, listeners, calls,
                   ui, radio, seen, panel>>

(***************************************************************************)
(* NodeStore. A node is a dict: a function from keys to values. A value is  *)
(* a nested group (a dict of scalars), a number, a bool, or the node id     *)
(* the node was first sighted with.                                         *)
(***************************************************************************)
Group(g) == [d |-> TRUE, g |-> g]
Scalar(v) == [d |-> FALSE, v |-> v]
Bool(b) == [d |-> FALSE, b |-> b]
NodeNum(node_id) == [d |-> FALSE, id |-> node_id]

\* dict.update
DictUpdate(g, h) ==
    [k \in DOMAIN g \cup DOMAIN h |-> IF k \in DOMAIN h THEN h[k] ELSE g[k]]

\* A merge that replaces nested groups instead of merging them.
MergeKeysReplace(node, data) == DictUpdate(node, data)

\* The merge loop of update_node: a key whose incoming and existing values
\* are both dicts is updated key by key, any other incoming key is assigned.
MergeKeys(node, data) ==
    [k \in DOMAIN node \cup DOMAIN data |->
        IF k \in DOMAIN data
        THEN IF data[k].d /\ k \in DOMAIN node /\ node[k].d
             THEN Group(DictUpdate(node[k].g, data[k].g))
             ELSE data[k]
        ELSE node[k]]

\* A test that sees a public key only when it is not empty.
CarriesNonEmptyKey(data) ==
    /\ "user" \in DOMAIN data
    /\ data["user"].d
    /\ "publicKey" \in DOMAIN data["user"].g
    /\ data["user"].g["publicKey"] # ""

\* 'publicKey' in data.get('user', {})
CarriesPublicKey(data) ==
    /\ "user" \in DOMAIN data
    /\ data["user"].d
    /\ "publicKey" \in DOMAIN data["user"].g

\* LogStorage.store_node: the row INSERT OR REPLACE writes. The node dicts of
\* the model hold only strings, numbers, bools and dicts of them under string
\* keys, which json.dumps and json.loads give back unchanged.
store_node(rows, node_id_str, data, timestamp) ==
    [k \in DOMAIN rows \cup {node_id_str} |->
        IF k = node_id_str THEN [data |-> data, last_updated |-> timestamp]
        ELSE rows[k]]

\* timestamp is what time.time() reads during the call.
update_node(node_id, data, timestamp) ==
    LET node_id_str == format_node_id(node_id)
        node == IF node_id_str \in DOMAIN nodes THEN nodes[node_id_str]
                ELSE [k \in {"num"} |-> NodeNum(node_id)]
        merged == MergeKeys(node, data)
        keyed == IF CarriesPublicKey(data)
                 THEN DictUpdate(merged,
                        [k \in {"has_public_key"} |->
                            Bool(data["user"].g["publicKey"] # "")])
                 ELSE merged
        heard == DictUpdate(keyed, [k \in {"lastHeard"} |-> Scalar(timestamp)])
    IN  [nodes |-> [k \in DOMAIN nodes \cup {node_id_str} |->
                       IF k = node_id_str THEN heard ELSE nodes[k]],
         rows |-> store_node(db_nodes, node_id_str, heard, timestamp),
         emitted |-> <<Event("node_updated", node_id_str)>>]

UpdateNode(node_id, data, timestamp) ==
    LET r == update_node(node_id, data, timestamp)
    IN  /\ now' = timestamp
        /\ nodes' = r.nodes
        /\ db_nodes' = r.rows
        /\ emitted' = r.emitted
        /\ ret' = [op |-> "update_node", args |-> <<node_id, data>>, val |-> NoneInt]
        /\ UNCHANGED <<packets, packets_seq, reactions, reactions_seq, reply_refs,
                       reply_refs_seq, run, issued, pager, heap, messages,
                       pending, tracked,
                       added, listeners, calls,
                       ui, radio, seen, panel>>

\* node.get('is_favorite', False) of a known node, False for an unknown one.
IsFavoriteIn(table, node_id) ==
    LET node_id_str == format_node_id(node_id)
    IN  /\ node_id_str \in DOMAIN table
        /\ DOMAIN table[node_id_str] # {}
        /\ "is_favorite" \in DOMAIN table[node_id_str]
        /\ table[node_id_str]["is_favorite"].b

is_favorite(node_id) == IsFavoriteIn(nodes, node_id)

\* A set_favorite that rebuilds the node's entry around the flag.
set_favorite_rebuilding(node_id, value) ==
    LET node_id_str == format_node_id(node_id)
    IN  IF node_id_str \in DOMAIN nodes
        THEN [nodes |-> [nodes EXCEPT ![node_id_str] =
                            [k \in {"num", "is_favorite"} |->
                                IF k = "num" THEN NodeNum(node_id) ELSE Bool(value)]],
              emitted |-> <<Event("node_updated", node_id_str)>>]
        ELSE [nodes |-> nodes, emitted |-> <<>>]

\* NodeStore.set_favorite: a known node gets the flag and node_updated is
\* notified; for an unknown node nothing happens. The store is not written.
set_favorite(node_id, value) ==
    LET node_id_str == format_node_id(node_id)
    IN  IF node_id_str \in DOMAIN nodes
        THEN [nodes |-> [nodes EXCEPT ![node_id_str] =
                            DictUpdate(@, [k \in {"is_favorite"} |-> Bool(value)])],
              emitted |-> <<Event("node_updated", node_id_str)>>]
        ELSE [nodes |-> nodes, emitted |-> <<>>]

SetFavorite(node_id, value) ==
    LET r == set_favorite(node_id, value)
    IN  /\ nodes' = r.nodes
        /\ emitted' = r.emitted
        /\ ret' = [op |-> "set_favorite", args |-> <<node_id, value>>, val |-> NoneInt]
        /\ UNCHANGED <<storeVars, now, run, issued, pager, heap, messages,
                       pending, tracked, added, listeners, calls,
                       ui, radio, seen, panel>>

\* json.loads(json.dumps(json_serializable(data))) of a node dict: dicts stay
\* dicts key by key, numbers, strings and bools come back as they went in.
json_round_trip(data) ==
    [k \in DOMAIN data |->
        IF data[k].d THEN Group([j \in DOMAIN data[k].g |-> data[k].g[j]])
        ELSE data[k]]

\* LogStorage.get_all_nodes: node_id -> json.loads(row['data'])
get_all_nodes == [n \in DOMAIN db_nodes |-> json_round_trip(db_nodes[n].data)]

\* NodeStore.load_from_storage into the registry table: stored nodes the
\* registry does not know are taken over, nodes_imported is notified when
\* the store had any node.
load_from_storage(table) ==
    LET stored_nodes == get_all_nodes
    IN  [nodes |-> [n \in DOMAIN table \cup DOMAIN stored_nodes |->
                       IF n \in DOMAIN table THEN table[n] ELSE stored_nodes[n]],
         emitted |-> IF DOMAIN stored_nodes # {}
                     THEN <<Event("nodes_imported", NoneStr)>> ELSE <<>>]

\* The registry is built anew over the same store: NodeStore(storage) and
\* load_from_storage().
Rebuild ==
    LET r == load_from_storage(EmptyNodes)
    IN  /\ nodes' = r.nodes
        /\ emitted' = r.emitted
        /\ ret' = [op |-> "rebuild", args |-> <<>>, val |-> NoneInt]
        /\ UNCHANGED <<storeVars, now, run, issued, pager, heap, messages,
                       pending, tracked, added, listeners, calls,
                       ui, radio, seen, panel>>

\* The record import_nodes keeps for one node: a copy of the radio's record
\* with isFavorite renamed to is_favorite and has_public_key derived from
\* user.publicKey.
ImportedRecord(node_data) ==
    LET renamed == IF "isFavorite" \in DOMAIN node_data
                   THEN [k \in (DOMAIN node_data \ {"isFavorite"}) \cup {"is_favorite"} |->
                            IF k = "is_favorite" THEN node_data["isFavorite"]
                            ELSE node_data[k]]
                   ELSE node_data
    IN  IF CarriesPublicKey(renamed)
        THEN DictUpdate(renamed,
               [k \in {"has_public_key"} |->
                   Bool(renamed["user"].g["publicKey"] # "")])
        ELSE renamed

\* node_data.get('num', node_id)
ImportedNum(imported, key) ==
    IF "num" \in DOMAIN imported[key] THEN imported[key]["num"].id ELSE key

\* NodeStore.import_nodes: every record replaces the registry entry of its
\* node; the store is not written; one nodes_imported event. The records of
\* one import are of different nodes.
import_nodes(imported) ==
    LET ids == {format_node_id(ImportedNum(imported, key)) : key \in DOMAIN imported}
        KeyOf(id) == CHOOSE key \in DOMAIN imported :
                        format_node_id(ImportedNum(imported, key)) = id
    IN  [nodes |-> [k \in DOMAIN nodes \cup ids |->
                       IF k \in ids THEN ImportedRecord(imported[KeyOf(k)])
                       ELSE nodes[k]],
         rows |-> db_nodes,
         emitted |-> <<Event("nodes_imported", NoneStr)>>]

ImportNodes(imported) ==
    LET r == import_nodes(imported)
    IN  /\ nodes' = r.nodes
        /\ db_nodes' = r.rows
        /\ emitted' = r.emitted
        /\ ret' = [op |-> "import_nodes", args |-> <<imported>>, val |-> NoneInt]
        /\ UNCHANGED <<packets, packets_seq, reactions, reactions_seq, reply_refs,
                       reply_refs_seq, now, run, issued, pager, heap, messages,
                       pending, tracked, added, listeners, calls,
                       ui, radio, seen, panel>>

(***************************************************************************)
(* Search: LogStorage._find_nodes_by_name and search_packets. Text and     *)
(* names are sequences of characters.                                      *)
(***************************************************************************)
Upper == <<"A", "B", "C", "D", "E", "F", "G", "H", "I", "J", "K", "L", "M",
           "N", "O", "P", "Q", "R", "S", "T", "U", "V", "W", "X", "Y", "Z">>
Lower == <<"a", "b", "c", "d", "e", "f", "g", "h", "i", "j", "k", "l", "m",
           "n", "o", "p", "q", "r", "s", "t", "u", "v", "w", "x", "y", "z">>

\* COLLATE NOCASE / LIKE fold the ASCII letters only.
AsciiLower(c) ==
    IF \E i \in 1..Len(Upper) : Upper[i] = c
    THEN Lower[CHOOSE i \in 1..Len(Upper) : Upper[i] = c]
    ELSE c

\* SQLite's LIKE: % matches any run of characters, _ any one character, any
\* other character itself without regard to ASCII case.
RECURSIVE Like(_, _)
Like(pattern, text) ==
    IF pattern = <<>> THEN text = <<>>
    ELSE IF Head(pattern) = "%"
         THEN \/ Like(Tail(pattern), text)
              \/ (text # <<>> /\ Like(pattern, Tail(text)))
    ELSE IF text = <<>> THEN FALSE
    ELSE /\ \/ Head(pattern) = "_"
            \/ AsciiLower(Head(pattern)) = AsciiLower(Head(text))
         /\ Like(Tail(pattern), Tail(text))

\* f"%{term}%"
SearchPattern(term) == <<"%">> \o term \o <<"%">>

\* json_extract(data, '$.user.shortName') and '$.user.longName', where they
\* are not NULL.
NodeNames(data) ==
    IF "user" \in DOMAIN data /\ data["user"].d
    THEN {data["user"].g[k] : k \in {"shortName", "longName"} \cap DOMAIN data["user"].g}
    ELSE {}

find_nodes_by_name(term) ==
    {n \in DOMAIN db_nodes :
        \E name \in NodeNames(db_nodes[n].data) : Like(SearchPattern(term), name)}

SearchWhere(row, term, matching_node_ids) ==
    \/ /\ row.portnum \in TextPortnums
       /\ Like(SearchPattern(term), row.payload.text)
    \/ row.from_node \in matching_node_ids
    \/ row.to_node \in matching_node_ids

\* Newest first: the rows are not reversed.
search_packets(term, limit, before_id) ==
    LET matching_node_ids == find_nodes_by_name(term)
        rows == OrderDescLimit(
                    {x \in packets : SearchWhere(x, term, matching_node_ids)
                                     /\ Before(x, before_id)},
                    limit)
    IN  [i \in 1..Len(rows) |-> StoredMessage(rows[i])]

SearchPackets(term, limit, before_id) ==
    /\ ret' = [op |-> "search_packets", args |-> <<term, limit, before_id>>,
               val |-> search_packets(term, limit, before_id)]
    /\ UNCHANGED <<storeVars, now, run, issued, beyondStore>>

\* A count of the text matches alone: packets from or to a node whose name
\* matches are left out.
count_text_matches(term) ==
    Cardinality({x \in packets : SearchWhere(x, term, {})})

\* SELECT COUNT(*) FROM packets WHERE the same predicate, without id bound,
\* order or limit.
count_search_results(term) ==
    LET matching_node_ids == find_nodes_by_name(term)
    IN  Cardinality({x \in packets : SearchWhere(x, term, matching_node_ids)})

\* A caller paging search_packets from the newest result: each next page is
\* asked for with before_id the id of the last (oldest) result it has, until
\* a page comes back empty.
RECURSIVE SearchAllPages(_, _, _)
SearchAllPages(term, limit, before_id) ==
    LET page == search_packets(term, limit, before_id)
    IN  IF page = <<>> THEN <<>>
        ELSE page \o SearchAllPages(term, limit, page[Len(page)].id)

CountSearchResults(term) ==
    /\ ret' = [op |-> "count_search_results", args |-> <<term>>,
               val |-> count_search_results(term)]
    /\ UNCHANGED <<storeVars, now, run, issued, beyondStore>>

(***************************************************************************)
(* The ingest path: reaction and reply prefixes of text messages,           *)
(* MeshtasticConnection._on_receive and the chat input's submit handler.    *)
(***************************************************************************)
Digits == <<"0", "1", "2", "3", "4", "5", "6", "7", "8", "9">>
IsDigit(c) == \E i \in 1..Len(Digits) : Digits[i] = c
DigitVal(c) == (CHOOSE i \in 1..Len(Digits) : Digits[i] = c) - 1

\* int() of a run of decimal digits.
RECURSIVE ParseInt(_)
ParseInt(ds) ==
    IF ds = <<>> THEN 0
    ELSE ParseInt(SubSeq(ds, 1, Len(ds) - 1)) * 10 + DigitVal(ds[Len(ds)])

\* Where \d+ starting at the fourth character ends: the last position k such
\* that characters 4..k are digits and character k + 1 is the closer; 0 when
\* there is none.
DigitsEnd(text, closer) ==
    LET ends == {k \in 4..(Len(text) - 1) :
                    /\ \A j \in 4..k : IsDigit(text[j])
                    /\ text[k + 1] = closer}
    IN  IF ends = {} THEN 0 ELSE CHOOSE k \in ends : TRUE

\* \s* at the head of a text.
RECURSIVE LStrip(_)
LStrip(text) ==
    IF text # <<>> /\ Head(text) \in {" ", "\n", "\t"} THEN LStrip(Tail(text)) ELSE text

NoMatch == [matched |-> FALSE]

\* re.compile(r'^\[>:(\d+)\]\s*(.*)$', re.DOTALL).match(text)
REPLY_PATTERN(text) ==
    IF Len(text) >= 5 /\ SubSeq(text, 1, 3) = <<"[", ">", ":">>
       /\ DigitsEnd(text, "]") # 0
    THEN LET k == DigitsEnd(text, "]")
         IN  [matched |-> TRUE, group1 |-> SubSeq(text, 4, k),
              group2 |-> LStrip(SubSeq(text, k + 2, Len(text)))]
    ELSE NoMatch

\* re.compile(r'^\[R:(\d+):([^\]]+)\]$').match(text)
REACTION_PATTERN(text) ==
    IF Len(text) >= 7 /\ SubSeq(text, 1, 3) = <<"[", "R", ":">>
       /\ DigitsEnd(text, ":") # 0
       /\ DigitsEnd(text, ":") + 2 < Len(text)
       /\ text[Len(text)] = "]"
       /\ \A j \in (DigitsEnd(text, ":") + 2)..(Len(text) - 1) : text[j] # "]"
    THEN LET k == DigitsEnd(text, ":")
         IN  [matched |-> TRUE, group1 |-> SubSeq(text, 4, k),
              group2 |-> SubSeq(text, k + 2, Len(text) - 1)]
    ELSE NoMatch

\* An emoji is one character of a text.
SUPPORTED_REACTIONS == {"thumbs_up", "heart"}

\* packet with one more key.
WithKey(packet, k, v) ==
    [x \in DOMAIN packet \cup {k} |-> IF x = k THEN v ELSE packet[x]]

\* packet.get('_reply_to_packet_id')
reply_to_packet_id(packet) ==
    IF "reply_to_packet_id" \in DOMAIN packet THEN packet["reply_to_packet_id"]
    ELSE NoneInt

\* A handler that toggles whatever emoji the text names.
HandleReactionAnyEmoji(packet, match) ==
    LET target_packet_id == ParseInt(match.group1)
        emoji == match.group2
        from_id == format_node_id(packet.from)
        target_message == find_message_by_packet_id(target_packet_id)
        r == store_reaction(reactions, reactions_seq, target_message.id,
                            target_packet_id, StrId(from_id), emoji[1], now)
    IN  IF Len(emoji) = 1 /\ target_message # NoMessage
        THEN /\ reactions' = r.rows
             /\ reactions_seq' = r.seq
             /\ emitted' = <<Event("reaction_updated",
                                   [message_db_id |-> target_message.id,
                                    message_packet_id |-> target_packet_id,
                                    emoji |-> emoji[1], reactor_node |-> from_id,
                                    added |-> r.val])>>
        ELSE /\ UNCHANGED <<reactions, reactions_seq>>
             /\ emitted' = <<>>

\* MeshtasticConnection._handle_reaction
HandleReaction(packet, match) ==
    LET target_packet_id == ParseInt(match.group1)
        emoji == match.group2
        from_id == format_node_id(packet.from)
        target_message == find_message_by_packet_id(target_packet_id)
        r == store_reaction(reactions, reactions_seq, target_message.id,
                            target_packet_id, StrId(from_id), emoji[1], now)
    IN  IF Len(emoji) = 1 /\ emoji[1] \in SUPPORTED_REACTIONS
           /\ target_message # NoMessage
        THEN /\ reactions' = r.rows
             /\ reactions_seq' = r.seq
             /\ emitted' = <<Event("reaction_updated",
                                   [message_db_id |-> target_message.id,
                                    message_packet_id |-> target_packet_id,
                                    emoji |-> emoji[1], reactor_node |-> from_id,
                                    added |-> r.val])>>
        ELSE /\ UNCHANGED <<reactions, reactions_seq>>
             /\ emitted' = <<>>

\* A subscriber that, called with message_added, asks the store for the reply
\* ref of the entry's row: what get_reply_ref answers from the reply_refs
\* table as it is while add is notifying.
ReQuery(table, events) ==
    [i \in 1..Len(events) |->
        [db_id |-> events[i].data.db_id,
         ref |-> GetReplyRefIn(table, events[i].data.db_id)]]

\* MeshtasticConnection._on_receive for a packet that carries no signal
\* report, is no routing acknowledgment and is not addressed to this node: a
\* reaction text toggles the reaction and is not logged; a reply text is
\* marked and stripped of its prefix; the packet goes into the buffer and,
\* marked as a reply, gets its reply ref.
OnReceive(packet) ==
    LET text == packet.decoded.text
        textual == packet.decoded.portnum \in TextPortnums
        reaction_match == REACTION_PATTERN(text)
        reply_match == REPLY_PATTERN(text)
        marked == IF textual /\ reply_match.matched
                  THEN [WithKey(packet, "reply_to_packet_id", ParseInt(reply_match.group1))
                            EXCEPT !.decoded = [portnum |-> packet.decoded.portnum,
                                                text |-> reply_match.group2,
                                                original_text |-> text]]
                  ELSE packet
        a == add(marked)
        link == StoreReplyRefIn(a.rows, a.val, reply_to_packet_id(marked), now)
    IN  /\ ret' = [op |-> "on_receive", args |-> <<packet>>, val |-> NoneInt]
        /\ IF textual /\ reaction_match.matched
           THEN /\ HandleReaction(packet, reaction_match)
                /\ run' = NoRun
                /\ seen' = <<>>
                /\ UNCHANGED <<packets, packets_seq, reply_refs, reply_refs_seq,
                               issued, heap, messages,
                               added>>
           ELSE /\ packets' = a.rows
                /\ packets_seq' = a.seq
                /\ issued' = Append(issued, [id |-> a.val, packet |-> marked])
                /\ heap' = a.heap
                /\ messages' = a.messages
                /\ added' = a.added
                /\ emitted' = a.emitted
                /\ IF Truthy(reply_to_packet_id(marked)) /\ Truthy(a.val)
                   THEN reply_refs' = link.rows /\ reply_refs_seq' = link.seq
                   ELSE UNCHANGED <<reply_refs, reply_refs_seq>>
                /\ seen' = ReQuery(reply_refs, a.emitted)
                /\ UNCHANGED <<reactions, reactions_seq, run>>
        /\ UNCHANGED <<db_nodes, now, pager, nodes, pending, tracked,
                       listeners, calls,
                       ui, radio, panel>>

\* MeshtermApp.on_chat_input_message_submitted after a successful send: with
\* a reply_to_packet_id the text went out through send_reply and the TX
\* packet is marked as a reply and linked to its parent.
Submit(reply_to, request_id, dest) ==
    LET tx_packet == IF Truthy(reply_to)
                     THEN WithKey(TxPacket(request_id, dest), "reply_to_packet_id", reply_to)
                     ELSE TxPacket(request_id, dest)
        a == add(tx_packet)
        o == Len(a.heap)
        link == StoreReplyRefIn(a.rows, a.val, reply_to, now)
    IN  /\ packets' = a.rows
        /\ packets_seq' = a.seq
        /\ issued' = Append(issued, [id |-> a.val, packet |-> tx_packet])
        /\ heap' = a.heap
        /\ messages' = a.messages
        /\ added' = a.added
        /\ emitted' = a.emitted
        /\ IF Truthy(reply_to) /\ Truthy(a.val)
           THEN reply_refs' = link.rows /\ reply_refs_seq' = link.seq
           ELSE UNCHANGED <<reply_refs, reply_refs_seq>>
        /\ pending' = IF Truthy(request_id)
                      THEN add_pending(request_id, o, request_id) ELSE pending
        /\ tracked' = IF Truthy(request_id)
                      THEN [k \in DOMAIN tracked \cup {o} |->
                               IF k = o THEN [db_id |-> a.val, outcomes |-> <<>>]
                               ELSE tracked[k]]
                      ELSE tracked
        /\ seen' = ReQuery(reply_refs, a.emitted)
        /\ ret' = [op |-> "submit", args |-> <<reply_to, request_id, dest>>,
                   val |-> a.val]
        /\ UNCHANGED <<reactions, reactions_seq, db_nodes, now, run, pager, nodes,
                       listeners, calls,
                       ui, radio, panel>>

(***************************************************************************)
(* The submit handler step by step, on the UI thread, and the routing       *)
(* branch of _on_receive, on the radio's callback thread: the two run       *)
(* against the same MessageBuffer with nothing that orders them.            *)
(***************************************************************************)
\* connection.send_message returned (True, request_id): the radio has the
\* packet and will report on it.
UiSend(request_id) ==
    /\ ui.pc = "idle"
    /\ ui' = [pc |-> "sent", request_id |-> request_id]
    /\ radio' = radio \cup {request_id}
    /\ ret' = [op |-> "send_message", args |-> <<request_id>>, val |-> request_id]
    /\ UNCHANGED <<storeVars, now, run, issued, pager, nodes, heap, messages,
                   pending, emitted, tracked, added, listeners, calls, seen, panel>>

\* db_id = self.state.messages.add(tx_packet)
UiAdd ==
    /\ ui.pc = "sent"
    /\ LET tx_packet == TxPacket(ui.request_id, StrId("^all"))
           a == add(tx_packet)
       IN  /\ packets' = a.rows
           /\ packets_seq' = a.seq
           /\ issued' = Append(issued, [id |-> a.val, packet |-> tx_packet])
           /\ heap' = a.heap
           /\ messages' = a.messages
           /\ added' = a.added
           /\ emitted' = a.emitted
           /\ ui' = [pc |-> "added", request_id |-> ui.request_id,
                     packet |-> Len(a.heap), db_id |-> a.val]
           /\ ret' = [op |-> "ui_add", args |-> <<tx_packet>>, val |-> a.val]
    /\ UNCHANGED <<reactions, reactions_seq, reply_refs, reply_refs_seq, db_nodes,
                   now, run, pager, nodes, pending, tracked, listeners, calls,
                   radio, seen, panel>>

\* if request_id: self.state.messages.add_pending(request_id, tx_packet,
\* packet_id=request_id)
UiAddPending ==
    /\ ui.pc = "added"
    /\ pending' = IF Truthy(ui.request_id)
                  THEN add_pending(ui.request_id, ui.packet, ui.request_id)
                  ELSE pending
    /\ tracked' = [k \in DOMAIN tracked \cup {ui.packet} |->
                      IF k = ui.packet THEN [db_id |-> ui.db_id, outcomes |-> <<>>]
                      ELSE tracked[k]]
    /\ ui' = [pc |-> "idle"]
    /\ ret' = [op |-> "add_pending", args |-> <<ui.request_id>>, val |-> NoneInt]
    /\ UNCHANGED <<storeVars, now, run, issued, pager, nodes, heap, messages,
                   emitted, added, listeners, calls, radio, seen, panel>>

\* _on_receive for a ROUTING_APP packet with a requestId: success is an
\* errorReason of '' or 'NONE', and resolve_pending gets the reason only for
\* a failure.
OnReceiveRouting(request_id, error) ==
    LET success == error \in {"", "NONE"}
        error_reason == IF success THEN NoneStr ELSE error
        r == IF Truthy(request_id)
             THEN resolve_pending(request_id, success, error_reason)
             ELSE [pending |-> pending, heap |-> heap, rows |-> packets,
                   emitted |-> <<>>, val |-> NoneInt]
    IN  /\ request_id \in radio
        /\ radio' = radio \ {request_id}
        /\ pending' = r.pending
        /\ heap' = r.heap
        /\ packets' = r.rows
        /\ emitted' = r.emitted
        /\ tracked' = IF r.val # NoneInt /\ r.val \in DOMAIN tracked
                      THEN [tracked EXCEPT ![r.val].outcomes =
                               Append(@, Outcome(success, error_reason))]
                      ELSE tracked
        /\ ret' = [op |-> "on_receive_routing", args |-> <<request_id, error>>,
                   val |-> r.val]
        /\ UNCHANGED <<packets_seq, reactions, reactions_seq, reply_refs,
                       reply_refs_seq, db_nodes, now, run, issued, pager, nodes,
                       messages, added, listeners, calls, ui, seen, panel>>

(***************************************************************************)
(* LogPanel: the displayed entries, each written down as the database id    *)
(* of its row, the oldest id loaded from the store, and the paging flags.   *)
(***************************************************************************)
HISTORY_PAGE_SIZE == 2

\* if self._oldest_id is None or msg.id < self._oldest_id: over a page
OldestOf(oldest_id, page) ==
    LET ids == {page[i].id : i \in DOMAIN page} \cup
               (IF oldest_id = NoneInt THEN {} ELSE {oldest_id})
    IN  CHOOSE m \in ids : \A k \in ids : m <= k

\* LogPanel._handle_packet_event with message_added, from MessageBuffer.add
\* of a received packet: the entry is appended to the displayed entries.
LiveMessage(packet) ==
    LET a == add(packet)
    IN  /\ packets' = a.rows
        /\ packets_seq' = a.seq
        /\ issued' = Append(issued, [id |-> a.val, packet |-> packet])
        /\ heap' = a.heap
        /\ messages' = a.messages
        /\ added' = a.added
        /\ emitted' = a.emitted
        /\ panel' = [panel EXCEPT !.entries = Append(@, a.val)]
        /\ ret' = [op |-> "live_message", args |-> <<packet>>, val |-> a.val]
        /\ UNCHANGED <<reactions, reactions_seq, reply_refs, reply_refs_seq,
                       db_nodes, now, run, pager, nodes, pending, tracked,
                       listeners, calls, ui, radio, seen>>

\* LogPanel.load_history: the newest page of the store, or the mirror's
\* entries when the store gave nothing. _loading_history is not touched.
load_history ==
    LET page == get_all_packets(HISTORY_PAGE_SIZE, NoneInt, {})
    IN  IF page # <<>>
        THEN [entries |-> [i \in DOMAIN page |-> page[i].id],
              oldest_id |-> OldestOf(NoneInt, page),
              history_exhausted |-> FALSE,
              loading_history |-> panel.loading_history]
        ELSE [entries |-> [i \in DOMAIN messages |-> messages[i].db_id],
              oldest_id |-> NoneInt,
              history_exhausted |-> FALSE,
              loading_history |-> panel.loading_history]

LoadHistory ==
    /\ panel' = load_history
    /\ ret' = [op |-> "load_history", args |-> <<>>, val |-> NoneInt]
    /\ UNCHANGED <<storeVars, now, run, issued, pager, nodes, heap, messages,
                   pending, emitted, tracked, added, listeners, calls, ui, radio,
                   seen>>

\* LogPanel._load_more_history: nothing when exhausted or loading; otherwise
\* the page before _oldest_id is put in front of the displayed entries.
load_more_history ==
    LET page == get_all_packets(HISTORY_PAGE_SIZE, panel.oldest_id, {})
    IN  IF panel.history_exhausted \/ panel.loading_history THEN panel
        ELSE IF page = <<>>
        THEN [panel EXCEPT !.history_exhausted = TRUE, !.loading_history = FALSE]
        ELSE [entries |-> [i \in DOMAIN page |-> page[i].id] \o panel.entries,
              oldest_id |-> OldestOf(panel.oldest_id, page),
              history_exhausted |-> panel.history_exhausted,
              loading_history |-> TRUE]

LoadMoreHistory ==
    /\ panel' = load_more_history
    /\ ret' = [op |-> "load_more_history", args |-> <<>>,
               val |-> Len(load_more_history.entries) - Len(panel.entries)]
    /\ UNCHANGED <<storeVars, now, run, issued, pager, nodes, heap, messages,
                   pending, emitted, tracked, added, listeners, calls, ui, radio,
                   seen>>

\* finish_loading, called after the refresh that follows a loaded page.
FinishLoading ==
    /\ panel.loading_history
    /\ panel' = [panel EXCEPT !.loading_history = FALSE]
    /\ ret' = [op |-> "finish_loading", args |-> <<>>, val |-> NoneInt]
    /\ UNCHANGED <<storeVars, now, run, issued, pager, nodes, heap, messages,
                   pending, emitted, tracked, added, listeners, calls, ui, radio,
                   seen>>

(***************************************************************************)
(* ChatLog: the preview of a reply's parent. A preview is the sender's      *)
(* name, or the sender's node id when the registry has no name, and the     *)
(* text cut to PREVIEW_LEN characters; the fallback is 'msg #<protocol id>'.*)
(***************************************************************************)
PREVIEW_LEN == 30

\* get_reply_refs_for_messages: a dict built from fetchall(), keyed by
\* reply_db_id, so the last row of a reply is the one kept.
get_reply_refs_for_messages(message_db_ids) ==
    [r \in {x.reply_db_id : x \in reply_refs} \cap message_db_ids |->
        LET rows == {x \in reply_refs : x.reply_db_id = r}
            last == CHOOSE x \in rows : \A y \in rows : y.id <= x.id
        IN  [parent_db_id |-> last.parent_db_id,
             parent_packet_id |-> last.parent_packet_id,
             timestamp |-> last.timestamp]]

\* user.get('shortName') or user.get('longName'), <<>> when the registry
\* has neither for the node: the preview then shows the node id.
PreviewName(from_node) ==
    LET user == IF from_node \in DOMAIN nodes
                   /\ "user" \in DOMAIN nodes[from_node]
                   /\ nodes[from_node]["user"].d
                THEN nodes[from_node]["user"].g
                ELSE [k \in {} |-> <<>>]
    IN  IF "shortName" \in DOMAIN user /\ user["shortName"] # <<>>
        THEN user["shortName"]
        ELSE IF "longName" \in DOMAIN user /\ user["longName"] # <<>>
        THEN user["longName"]
        ELSE <<>>

\* text[:30] + '...' if len(text) > 30 else text
PreviewText(text) ==
    IF Len(text) > PREVIEW_LEN
    THEN SubSeq(text, 1, PREVIEW_LEN) \o <<".", ".", ".">>
    ELSE text

PreviewOf(parent) ==
    [kind |-> "preview", from_node |-> parent.from_node,
     name |-> PreviewName(parent.from_node),
     text |-> PreviewText(parent.payload.text)]

\* ChatLog._get_reply_preview: get_parent_message is called with the
\* ref's parent_db_id.
get_reply_preview(reply_ref) ==
    LET parent == get_parent_message(reply_ref.parent_db_id)
    IN  IF Truthy(reply_ref.parent_db_id) /\ parent # NoMessage
        THEN PreviewOf(parent)
        ELSE [kind |-> "fallback", packet_id |-> reply_ref.parent_packet_id]

\* _render_message of a displayed reply: its ref comes from the cache that
\* get_reply_refs_for_messages filled.
GetReplyPreview(db_id) ==
    /\ db_id \in DOMAIN get_reply_refs_for_messages({db_id})
    /\ ret' = [op |-> "get_reply_preview", args |-> <<db_id>>,
               val |-> get_reply_preview(get_reply_refs_for_messages({db_id})[db_id])]
    /\ UNCHANGED <<storeVars, now, run, issued, beyondStore>>

(***************************************************************************)
(* Observable: subscribe, unsubscribe, notify. A callback is known by its   *)
(* number; the callbacks of Raising raise an Exception when called, the     *)
(* others return. No callback subscribes or unsubscribes while it runs.     *)
(***************************************************************************)
Raising == {2}

\* callback(event_type, data)
Invoke(callback, event_type, data) ==
    [call |-> [callback |-> callback, type |-> event_type, data |-> data],
     raised |-> callback \in Raising]

\* The loop without its try/except: the first exception ends it and goes to
\* the caller.
RECURSIVE notify_unguarded(_, _, _)
notify_unguarded(ls, event_type, data) ==
    IF ls = <<>> THEN [calls |-> <<>>, raised |-> FALSE]
    ELSE LET c == Invoke(Head(ls), event_type, data)
             rest == notify_unguarded(Tail(ls), event_type, data)
         IN  IF c.raised THEN [calls |-> <<c.call>>, raised |-> TRUE]
             ELSE [calls |-> <<c.call>> \o rest.calls, raised |-> rest.raised]

\* for callback in self._listeners: try: callback(...) except Exception: pass
RECURSIVE notify(_, _, _)
notify(ls, event_type, data) ==
    IF ls = <<>> THEN [calls |-> <<>>, raised |-> FALSE]
    ELSE LET c == Invoke(Head(ls), event_type, data)
             rest == notify(Tail(ls), event_type, data)
         IN  [calls |-> <<c.call>> \o rest.calls, raised |-> rest.raised]

\* callback in self._listeners
Subscribed(callback) == \E i \in DOMAIN listeners : listeners[i] = callback

\* list.remove: the first occurrence goes.
RECURSIVE ListRemove(_, _)
ListRemove(ls, callback) ==
    IF ls = <<>> THEN <<>>
    ELSE IF Head(ls) = callback THEN Tail(ls)
    ELSE <<Head(ls)>> \o ListRemove(Tail(ls), callback)

Subscribe(callback) ==
    /\ listeners' = IF Subscribed(callback) THEN listeners
                    ELSE Append(listeners, callback)
    /\ ret' = [op |-> "subscribe", args |-> <<callback>>, val |-> NoneInt]
    /\ UNCHANGED <<storeVars, now, run, issued, pager, nodes, heap, messages,
                   pending, emitted, tracked, added, calls,
                   ui, radio, seen, panel>>

Unsubscribe(callback) ==
    /\ listeners' = IF Subscribed(callback) THEN ListRemove(listeners, callback)
                    ELSE listeners
    /\ ret' = [op |-> "unsubscribe", args |-> <<callback>>, val |-> NoneInt]
    /\ UNCHANGED <<storeVars, now, run, issued, pager, nodes, heap, messages,
                   pending, emitted, tracked, added, calls,
                   ui, radio, seen, panel>>

Notify(event_type, data) ==
    LET n == notify(listeners, event_type, data)
    IN  /\ calls' = n.calls
        /\ ret' = [op |-> "notify", args |-> <<event_type, data>>, val |-> NoneInt,
                   raised |-> n.raised]
        /\ UNCHANGED <<storeVars, now, run, issued, pager, nodes, heap, messages,
                       pending, emitted, tracked, added, listeners,
                       ui, radio, seen, panel>>

\* LogStorage.__init__ on a fresh database.
Init ==
    /\ packets = {}
    /\ packets_seq = 0
    /\ reactions = {}
    /\ reactions_seq = 0
    /\ reply_refs = {}
    /\ reply_refs_seq = 0
    /\ db_nodes = EmptyNodes
    /\ now = 1
    /\ ret = NoCall
    /\ run = NoRun
    /\ issued = <<>>
    /\ pager = NoPager
    /\ nodes = EmptyNodes
    /\ heap = <<>>
    /\ messages = <<>>
    /\ pending = EmptyNodes
    /\ emitted = <<>>
    /\ tracked = EmptyNodes
    /\ added = <<>>
    /\ listeners = <<>>
    /\ calls = <<>>
    /\ ui = [pc |-> "idle"]
    /\ radio = {}
    /\ seen = <<>>
    /\ panel = [entries |-> <<>>, oldest_id |-> NoneInt,
                history_exhausted |-> FALSE, loading_history |-> FALSE]

(***************************************************************************)
(* SpecReact: the reaction toggle, driven as the tests and _handle_reaction *)
(* drive it.                                                               *)
(***************************************************************************)
MaxReactionId == 3

ReactMessages == {1, 2}
ReactPacketIds == {7}
ReactNodes == {IntId(1), StrId("!00000001"), StrId("!00000002")}
ReactEmojis == {"thumbs_up", "heart"}

NextReact ==
    \/ \E m \in ReactMessages, p \in ReactPacketIds, r \in ReactNodes,
          e \in ReactEmojis :
            /\ reactions_seq < MaxReactionId
            /\ StoreReaction(m, p, r, e)
    \/ /\ reactions # {}
       /\ ClearMessages

SpecReact == Init /\ [][NextReact]_vars

\* C1: n store_reaction calls with the same (message_db_id, reactor_node,
\* emoji) leave the triple present iff (present before the run) XOR (n odd),
\* with exactly one row when present, and leave the rows of every other
\* triple as they were before the run.
C1_ToggleParity ==
    run.n > 0 =>
        LET rows == RowsOfTriple(reactions, run.triple)
        IN  /\ Cardinality(rows) = (IF run.before # (run.n % 2 = 1) THEN 1 ELSE 0)
            /\ reactions \ rows = run.others

\* Three toggles from absent, beside another triple's reaction, left one row.
C1_Witness ==
    /\ run.n = 3
    /\ ~run.before
    /\ run.others # {}
    /\ Cardinality(RowsOfTriple(reactions, run.triple)) = 1

\* C2: store_reaction returns True exactly when the triple was absent before
\* the call (and is present after it) and False exactly when it was present
\* (and is absent after it); the table never holds two rows of one triple.
C2_ToggleStep ==
    ret'.op = "store_reaction" =>
        LET t == Triple(ret'.args[1], ret'.args[3], ret'.args[4])
            before == RowsOfTriple(reactions, t) # {}
            after == RowsOfTriple(reactions', t) # {}
        IN  /\ ~ret'.raised
            /\ ret'.val = ~before
            /\ after = ~before

C2_ToggleReturn == []ReactionsUnique(reactions) /\ [][C2_ToggleStep]_vars

\* A call found its triple present, removed it and returned False.
C2_Witness ==
    /\ ret.op = "store_reaction"
    /\ ~ret.raised
    /\ ret.val = FALSE
    /\ RowsOfTriple(reactions, Triple(ret.args[1], ret.args[3], ret.args[4])) = {}
    /\ reactions # {}

(***************************************************************************)
(* SpecReply: packets and reply links. A caller links a reply right after   *)
(* store_packet returned its id (connection.py _on_receive, app.py          *)
(* on_chat_input_message_submitted), so a linked id is a stored packet's    *)
(* that has no link yet.                                                   *)
(***************************************************************************)
MaxPacketId == 3

ReplyProtocolIds == {5, 6}
ReplyPackets ==
    {Packet(id, IntId(1), StrId("^all"), 0, "TEXT_MESSAGE_APP", <<"h", "i">>,
            FALSE, "None") : id \in ReplyProtocolIds \cup {NoneInt}}

Unlinked == {x.id : x \in packets} \ {x.reply_db_id : x \in reply_refs}

NextReply ==
    \/ \E p \in ReplyPackets :
          /\ packets_seq < MaxPacketId
          /\ StorePacket(p)
    \/ \E r \in Unlinked, P \in ReplyProtocolIds : StoreReplyRef(r, P, now)
    \/ \E r \in {x.reply_db_id : x \in reply_refs} : GetParentMessage(r)
    \/ /\ packets # {}
       /\ ClearMessages

SpecReply == Init /\ [][NextReply]_vars

\* C3: a reply linked while no stored packet had the parent's protocol id
\* (its link holds a null parent) has no parent while no such packet is
\* stored, and once one is stored get_parent_message returns a stored packet
\* with that protocol id, one stored after the reply.
C3_OutOfOrderReply ==
    \A x \in reply_refs :
        x.parent_db_id = NoneInt =>
            LET parents == {y \in packets : y.packet_id = x.parent_packet_id}
                got == get_parent_message(x.reply_db_id)
            IN  IF parents = {} THEN got = NoMessage
                ELSE /\ got.id \in {y.id : y \in parents}
                     /\ got.packet_id = x.parent_packet_id
                     /\ got.id > x.reply_db_id

\* A link stored with a null parent; its parent arrived later and
\* get_parent_message returned it.
C3_Witness ==
    /\ ret.op = "get_parent_message"
    /\ ret.val # NoMessage
    /\ \E x \in reply_refs :
          /\ x.reply_db_id = ret.args[1]
          /\ x.parent_db_id = NoneInt
          /\ ret.val.packet_id = x.parent_packet_id
          /\ ret.val.id > x.reply_db_id

(***************************************************************************)
(* SpecPage: a store is filled, then one caller pages through it.           *)
(***************************************************************************)
MaxPageRows == 4
MaxLimit == 2

PagePackets ==
    {Packet(NoneInt, IntId(1), StrId("^all"), 0, "TEXT_MESSAGE_APP", <<"h">>, FALSE, "None"),
     Packet(NoneInt, IntId(2), IntId(1), 0, "1", <<"h">>, FALSE, "None"),
     Packet(NoneInt, IntId(1), StrId("!ffffffff"), 1, "TEXT_MESSAGE_APP", <<"h">>, FALSE, "None"),
     Packet(NoneInt, IntId(1), StrId("^all"), 0, "TELEMETRY_APP", <<>>, FALSE, "None")}

PageQueries ==
    {TextQuery(NoneInt, FALSE), TextQuery(0, TRUE),
     NodeQuery(IntId(1), 0, TRUE), NodeQuery(StrId("!00000001"), NoneInt, FALSE),
     AllQuery({}), AllQuery({"TELEMETRY_APP", "1"})}

NextPage ==
    \/ \E p \in PagePackets :
          /\ pager.pc = "idle"
          /\ packets_seq < MaxPageRows
          /\ StorePacket(p)
    \/ /\ pager.pc = "idle"
       /\ packets # {}
       /\ packets_seq < MaxPageRows
       /\ ClearMessages
    \/ \E q \in PageQueries, limit \in 1..MaxLimit : StartPaging(q, limit)
    \/ LoadPage

SpecPage == Init /\ [][NextPage]_vars

Ascending(msgs) == \A i, j \in 1..Len(msgs) : i < j => msgs[i].id < msgs[j].id

\* C4: paging a history query backwards from before_id = None, every page has
\* at most limit rows in ascending id order, all below the before_id it was
\* asked with; what is loaded (each page put in front) is ascending, so no
\* packet is in two pages; and when the empty page arrives what is loaded is
\* exactly the matching packets, each once.
C4_Pagination ==
    pager.pc # "idle" =>
        /\ Len(pager.page) <= pager.limit
        /\ Ascending(pager.page)
        /\ \A i \in 1..Len(pager.page) :
              pager.page_before # NoneInt => pager.page[i].id < pager.page_before
        /\ Ascending(pager.loaded)
        /\ \A i \in 1..Len(pager.loaded) :
              \E x \in packets : Matches(pager.q, x) /\ pager.loaded[i] = StoredMessage(x)
        /\ pager.pc = "done" =>
              {pager.loaded[i].id : i \in 1..Len(pager.loaded)}
                  = {x.id : x \in {y \in packets : Matches(pager.q, y)}}

\* A filtered history of three matching packets among four, loaded in three
\* pages of one and ended by the empty page.
C4_Witness ==
    /\ pager.pc = "done"
    /\ pager.pages = 3
    /\ Len(pager.loaded) = 3
    /\ Cardinality(packets) = 4

(***************************************************************************)
(* SpecPending: sends, received packets and routing acknowledgments.       *)
(* Protocol packet ids are not unique over time, so a request id may come  *)
(* back for a later send.                                                  *)
(***************************************************************************)
RequestIds == {5, 6}
UnknownRequestId == 7
AckOutcomes == {Outcome(TRUE, NoneStr), Outcome(FALSE, "NO_ROUTE")}
InboundPackets ==
    {Packet(5, IntId(2), IntId(1), 0, "TEXT_MESSAGE_APP", <<"h", "i">>, FALSE, "None")}

NextPending ==
    \/ \E r \in RequestIds \cup {NoneInt}, dest \in {StrId("^all")} :
          /\ packets_seq < MaxPacketId
          /\ SendText(r, dest)
    \/ \E p \in InboundPackets :
          /\ packets_seq < MaxPacketId
          /\ Receive(p)
    \/ \E r \in RequestIds \cup {UnknownRequestId}, o \in AckOutcomes :
          ResolvePending(r, o.success, o.error_reason)

SpecPending == Init /\ [][NextPending]_vars

\* C5: resolve_pending for a request id that is not registered returns None,
\* emits no event and leaves the pending index, the mirror, the packet dicts
\* and the stored packets unchanged.
C5_UnknownStep ==
    (ret'.op = "resolve_pending" /\ ret'.args[1] \notin DOMAIN pending) =>
        /\ ret'.val = NoneInt
        /\ emitted' = <<>>
        /\ UNCHANGED <<pending, messages, heap, packets>>

C5_ResolveUnknown == [][C5_UnknownStep]_vars

\* A second acknowledgment of an already resolved request, with the opposite
\* outcome, was answered with None; the packet keeps its first status.
C5_Witness ==
    /\ ret.op = "resolve_pending"
    /\ ret.val = NoneInt
    /\ ret.args[2] = FALSE
    /\ ret.args[1] \notin DOMAIN pending
    /\ \E o \in DOMAIN tracked :
          /\ heap[o].id = ret.args[1]
          /\ tracked[o].outcomes = <<Outcome(TRUE, NoneStr)>>
          /\ heap[o].delivered = "True"
          /\ \E x \in packets : x.id = tracked[o].db_id /\ x.delivered = 1

\* C6: each registration is resolved at most once, and a packet resolved once
\* keeps, in memory and in its stored row, the delivery status of that first
\* resolution whatever acknowledgments arrive later.
C6_AtMostOnce ==
    \A o \in DOMAIN tracked :
        LET t == tracked[o]
        IN  /\ Len(t.outcomes) <= 1
            /\ Len(t.outcomes) = 1 =>
                  /\ heap[o].delivered = PyStr(t.outcomes[1].success)
                  /\ \A x \in packets :
                        x.id = t.db_id =>
                            /\ x.delivered = SqlFlag(t.outcomes[1].success)
                            /\ x.error_reason = t.outcomes[1].error_reason

\* The part of C6 that lives in memory: one resolution per registration, and
\* the packet dict keeps the status of its resolution.
C6_InMemory ==
    \A o \in DOMAIN tracked :
        LET t == tracked[o]
        IN  /\ Len(t.outcomes) <= 1
            /\ Len(t.outcomes) = 1 =>
                  heap[o].delivered = PyStr(t.outcomes[1].success)

(***************************************************************************)
(* SpecNode: sightings of one node, named by number or by id string, with  *)
(* partial updates as _on_receive builds them; the clock may have moved on *)
(* a second between two sightings.                                         *)
(***************************************************************************)
MaxTime == 3

NodeIds == {IntId(1), StrId("!00000001")}

Dict1(k, v) == [x \in {k} |-> v]

NodeUpdates ==
    {Dict1("position", Group(Dict1("lat", 1))),
     Dict1("position", Group(Dict1("lon", 2))),
     Dict1("position", Scalar(0)),
     Dict1("snr", Scalar(5)),
     DictUpdate(Dict1("snr", Scalar(6)), Dict1("lastHeard", Scalar(0))),
     Dict1("user", Group(DictUpdate(Dict1("publicKey", ""),
                                    Dict1("shortName", <<"a", "b">>)))),
     Dict1("user", Group(Dict1("publicKey", "k")))}

NextNode ==
    \E n \in NodeIds, data \in NodeUpdates, t \in {now, now + 1} :
        /\ t <= MaxTime
        /\ UpdateNode(n, data, t)

SpecNode == Init /\ [][NextNode]_vars

\* The node update_node(node_id, ...) finds: the stored one, or the fresh
\* {'num': node_id} of a first sighting.
C7_Existing(node_id) ==
    IF format_node_id(node_id) \in DOMAIN nodes
    THEN nodes[format_node_id(node_id)]
    ELSE Dict1("num", NodeNum(node_id))

\* What the merge rule alone gives key k of B.
C7_Merged(old, B, k) ==
    IF B[k].d /\ k \in DOMAIN old /\ old[k].d
    THEN Group(DictUpdate(old[k].g, B[k].g))
    ELSE B[k]

\* C7 as stated: update_node(id, B) on an existing node merges key by key,
\* B winning, every key that is a nested group in both; every other key of B
\* replaces the existing value; keys absent from B are unchanged.
C7_MergeStepAsStated ==
    ret'.op = "update_node" =>
        LET B == ret'.args[2]
            old == C7_Existing(ret'.args[1])
            new == nodes'[format_node_id(ret'.args[1])]
        IN  /\ \A k \in DOMAIN B : k \in DOMAIN new /\ new[k] = C7_Merged(old, B, k)
            /\ \A k \in DOMAIN old \ DOMAIN B : k \in DOMAIN new /\ new[k] = old[k]

C7_MergeAsStated == [][C7_MergeStepAsStated]_vars

\* C7 amended: the same, except for two keys update_node sets itself:
\* lastHeard is the current time after every call, and has_public_key is
\* whether B's user group holds a non-empty publicKey whenever B's user group
\* has that field.
C7_MergeStep ==
    ret'.op = "update_node" =>
        LET B == ret'.args[2]
            old == C7_Existing(ret'.args[1])
            new == nodes'[format_node_id(ret'.args[1])]
            own == {"lastHeard"} \cup
                   (IF CarriesPublicKey(B) THEN {"has_public_key"} ELSE {})
        IN  /\ DOMAIN new = DOMAIN old \cup DOMAIN B \cup own
            /\ \A k \in DOMAIN B \ own : new[k] = C7_Merged(old, B, k)
            /\ \A k \in DOMAIN old \ (DOMAIN B \cup own) : new[k] = old[k]
            /\ new["lastHeard"] = Scalar(now')
            /\ CarriesPublicKey(B) =>
                  new["has_public_key"] = Bool(B["user"].g["publicKey"] # "")

C7_Merge == [][C7_MergeStep]_vars

\* position {lat: 1} then, a second later, {lon: 2}: the node holds
\* {lat: 1, lon: 2} and the time of the second sighting.
C7_Witness ==
    /\ ret.op = "update_node"
    /\ ret.args[2] = Dict1("position", Group(Dict1("lon", 2)))
    /\ nodes[format_node_id(ret.args[1])]["position"]
          = Group(DictUpdate(Dict1("lat", 1), Dict1("lon", 2)))
    /\ nodes[format_node_id(ret.args[1])]["lastHeard"] = Scalar(now)
    /\ now > 1

(***************************************************************************)
(* SpecStore: the four tables filled and cleared.                          *)
(***************************************************************************)
MaxStoreRows == 2

StorePackets ==
    {Packet(5, IntId(1), StrId("^all"), 0, "TEXT_MESSAGE_APP", <<"h", "i">>,
            FALSE, "None")}

NextStore ==
    \/ \E p \in StorePackets :
          /\ packets_seq < MaxStoreRows
          /\ StorePacket(p)
    \/ \E m \in {x.id : x \in packets} :
          /\ reactions_seq < MaxStoreRows
          /\ StoreReaction(m, 5, IntId(2), "heart")
    \/ \E r \in Unlinked : StoreReplyRef(r, 5, now)
    \/ /\ nodes = EmptyNodes
       /\ UpdateNode(IntId(1), Dict1("snr", Scalar(5)), now)
    \/ ClearMessages
    \/ ClearAllData

SpecStore == Init /\ [][NextStore]_vars

\* C8: clear_messages returns the number of packet rows there were when it
\* was called, leaves no packet, reaction or reply ref, and leaves the nodes
\* table as it was.
C8_ClearStep ==
    ret'.op = "clear_messages" =>
        /\ ret'.val = Cardinality(packets)
        /\ packets' = {}
        /\ reactions' = {}
        /\ reply_refs' = {}
        /\ db_nodes' = db_nodes

C8_ClearMessages == [][C8_ClearStep]_vars

\* Two packets, with a reaction and a reply ref among them, were cleared
\* beside a stored node.
C8_Witness ==
    /\ ret.op = "clear_messages"
    /\ ret.val = 2
    /\ packets = {} /\ reactions = {} /\ reply_refs = {}
    /\ reactions_seq > 0
    /\ reply_refs_seq > 0
    /\ DOMAIN db_nodes # {}

(***************************************************************************)
(* SpecIds: packets of two senders stored between clears of the messages   *)
(* and of the whole database.                                              *)
(***************************************************************************)
IdPackets ==
    {Packet(5, IntId(f), StrId("^all"), 0, "TEXT_MESSAGE_APP", <<"h", "i">>,
            FALSE, "None") : f \in {1, 2}}

NextIds ==
    \/ \E p \in IdPackets :
          /\ packets_seq < MaxPacketId
          /\ StorePacket(p)
    \/ ClearMessages
    \/ ClearAllData

SpecIds == Init /\ [][NextIds]_vars

\* C10: the ids store_packet returned are strictly increasing in call order,
\* across clear_messages and clear_all_data; every stored row carries the id
\* store_packet returned for its packet, and no id is held by two rows.
C10_IdsIncrease ==
    /\ \A i, j \in 1..Len(issued) : i < j => issued[i].id < issued[j].id
    /\ \A x \in packets :
          \E i \in 1..Len(issued) :
              /\ issued[i].id = x.id
              /\ x = PacketRow(x.id, issued[i].packet, x.timestamp)
    /\ \A x, y \in packets : x.id = y.id => x = y

\* After two packets were stored and cleared, a packet of another sender was
\* stored and got id 3.
C10_Witness ==
    /\ Len(issued) = 3
    /\ ret.op = "store_packet"
    /\ ret.val = 3
    /\ Cardinality(packets) = 1
    /\ issued[3].packet # issued[1].packet

(***************************************************************************)
(* SpecSearch: text and telemetry packets of a nameless and of a named     *)
(* node, searched with the default limit.                                  *)
(***************************************************************************)
DefaultLimit == 100

SearchPacketsStored ==
    {Packet(NoneInt, IntId(1), StrId("^all"), 0, "TEXT_MESSAGE_APP", <<"a", "b", "c">>, FALSE, "None"),
     Packet(NoneInt, IntId(1), StrId("^all"), 0, "1", <<"A", "_", "C">>, FALSE, "None"),
     Packet(NoneInt, IntId(1), StrId("^all"), 0, "TELEMETRY_APP", <<"a", "b", "c">>, FALSE, "None"),
     Packet(NoneInt, IntId(2), StrId("^all"), 0, "TEXT_MESSAGE_APP", <<"x">>, FALSE, "None")}

SearchTerms == {<<"a", "_", "c">>, <<"B">>, <<"%">>, <<"z">>, <<>>}

NextSearch ==
    \/ \E p \in SearchPacketsStored :
          /\ packets_seq < MaxPacketId
          /\ StorePacket(p)
    \/ /\ nodes = EmptyNodes
       /\ UpdateNode(IntId(2), Dict1("user", Group(Dict1("longName", <<"A", "B">>))), now)
    \/ \E term \in SearchTerms : SearchPackets(term, DefaultLimit, NoneInt)

SpecSearch == Init /\ [][NextSearch]_vars

\* text contains term as a literal substring, ASCII case ignored.
C9_Contains(text, term) ==
    \E i \in 0..(Len(text) - Len(term)) :
        \A j \in 1..Len(term) : AsciiLower(text[i + j]) = AsciiLower(term[j])

C9_LiteralMatch(row, term) ==
    \/ /\ row.portnum \in TextPortnums
       /\ C9_Contains(row.payload.text, term)
    \/ \E n \in DOMAIN db_nodes :
          /\ row.from_node = n \/ row.to_node = n
          /\ \E name \in NodeNames(db_nodes[n].data) : C9_Contains(name, term)

C9_Returned(result, row) == \E i \in 1..Len(result) : result[i].id = row.id

\* C9: search_packets(term) returns a stored packet if and only if it is a
\* text-kind packet whose text contains term as a case-insensitive literal
\* substring, or its from or to node has a stored short or long name that
\* contains term as a case-insensitive literal substring.
C9_SearchStep ==
    ret'.op = "search_packets" =>
        \A x \in packets :
            C9_Returned(ret'.val, x) <=> C9_LiteralMatch(x, ret'.args[1])

C9_SearchLiteral == [][C9_SearchStep]_vars

\* What the search does keep of C9: whatever the term, a literal match is
\* returned, and a packet is returned only for its text, when it is of text
\* kind, or for a name of its from or to node; for a term without % and _
\* the two sides agree.
C9_SearchLikeStep ==
    ret'.op = "search_packets" =>
        LET term == ret'.args[1]
        IN  \A x \in packets :
               /\ C9_LiteralMatch(x, term) => C9_Returned(ret'.val, x)
               /\ (\A j \in 1..Len(term) : term[j] \notin {"%", "_"}) =>
                     (C9_Returned(ret'.val, x) => C9_LiteralMatch(x, term))

C9_SearchLike == [][C9_SearchLikeStep]_vars

(***************************************************************************)
(* SpecIngest: texts arrive from another node, plain, as replies and as    *)
(* reactions, and this node sends texts and replies.                       *)
(***************************************************************************)
IngestTexts ==
    {<<"h", "i">>,
     <<"[", ">", ":", "5", "]", " ", "h">>,
     <<"[", ">", ":", "0", "]", " ", "h">>,
     <<"[", ">", ":", "1", "5", "]", "h">>,
     <<"[", ">", ":", "]", "h">>,
     <<"[", "R", ":", "5", ":", "heart", "]">>,
     <<"[", "R", ":", "5", ":", "h", "]">>}

IngestPackets ==
    {Packet(5, IntId(2), StrId("^all"), 0, "TEXT_MESSAGE_APP", text, FALSE, "None") :
        text \in IngestTexts}
    \cup {Packet(6, IntId(2), StrId("^all"), 0, "TELEMETRY_APP",
                 <<"[", ">", ":", "5", "]", " ", "h">>, FALSE, "None")}

NextIngest ==
    \/ \E p \in IngestPackets :
          /\ packets_seq < MaxPacketId
          /\ reactions_seq < MaxReactionId
          /\ OnReceive(p)
    \/ \E reply_to \in {NoneInt, 5}, r \in {6} :
          /\ packets_seq < MaxPacketId
          /\ Submit(reply_to, r, StrId("^all"))

SpecIngest == Init /\ [][NextIngest]_vars

\* The packet was recognised as a reply: it carries '_reply_to_packet_id'.
C11_IsReply(packet) == "reply_to_packet_id" \in DOMAIN packet

\* C11: every persisted packet recognised as a reply has exactly one
\* reply_refs row for its database id, naming the parent protocol id its
\* prefix gave, and no other persisted packet has a reply_refs row.
C11_OneRefPerReply ==
    \A i \in 1..Len(issued) :
        LET refs == {x \in reply_refs : x.reply_db_id = issued[i].id}
        IN  IF C11_IsReply(issued[i].packet)
            THEN /\ Cardinality(refs) = 1
                 /\ \A x \in refs :
                       x.parent_packet_id = issued[i].packet["reply_to_packet_id"]
            ELSE refs = {}

\* What holds of C11: the same for every reply whose parent protocol id is
\* not 0.
C11_OneRefPerNonZeroReply ==
    \A i \in 1..Len(issued) :
        LET refs == {x \in reply_refs : x.reply_db_id = issued[i].id}
        IN  IF C11_IsReply(issued[i].packet)
               /\ issued[i].packet["reply_to_packet_id"] # 0
            THEN /\ Cardinality(refs) = 1
                 /\ \A x \in refs :
                       x.parent_packet_id = issued[i].packet["reply_to_packet_id"]
            ELSE refs = {}

(***************************************************************************)
(* SpecLink: packets are stored and each is linked once, as a reply, to a  *)
(* parent protocol id that is or is not stored yet.                        *)
(***************************************************************************)
LinkPackets ==
    {Packet(id, IntId(1), StrId("^all"), 0, "TEXT_MESSAGE_APP", <<"h", "i">>,
            FALSE, "None") : id \in {5, NoneInt}}

NextLink ==
    \/ \E p \in LinkPackets :
          /\ packets_seq < MaxPacketId
          /\ StorePacket(p)
    \/ \E r \in Unlinked, P \in ReplyProtocolIds, t \in {now, now + 1} :
          /\ t <= MaxTime
          /\ StoreReplyRef(r, P, t)

SpecLink == Init /\ [][NextLink]_vars

\* C12: store_reply_ref(reply_id, P, ts) adds exactly one link, for reply_id,
\* P and ts; with a packet of protocol id P stored the link holds the
\* database id of such a packet and that id is returned, otherwise the link
\* holds a null parent and None is returned; get_reply_ref(reply_id) then
\* reports that parent_db_id, P and ts.
C12_LinkStep ==
    ret'.op = "store_reply_ref" =>
        LET reply_id == ret'.args[1]
            P == ret'.args[2]
            ts == ret'.args[3]
            parents == {x \in packets : x.packet_id # NoneInt /\ x.packet_id = P}
            new_refs == reply_refs' \ reply_refs
        IN  /\ reply_refs \subseteq reply_refs'
            /\ Cardinality(new_refs) = 1
            /\ \A x \in new_refs :
                  /\ x.reply_db_id = reply_id
                  /\ x.parent_packet_id = P
                  /\ x.timestamp = ts
                  /\ x.parent_db_id = ret'.val
            /\ IF parents = {} THEN ret'.val = NoneInt
               ELSE ret'.val \in {x.id : x \in parents}
            /\ GetReplyRefIn(reply_refs', reply_id) =
                  [parent_db_id |-> ret'.val, parent_packet_id |-> P,
                   timestamp |-> ts, found |-> TRUE]

C12_StoreReplyRef == [][C12_LinkStep]_vars

\* One reply was linked to a stored parent and got its id, another, a second
\* later, to a parent that is not stored and got None.
C12_Witness ==
    /\ ret.op = "store_reply_ref"
    /\ ret.val = NoneInt
    /\ ret.args[3] > 1
    /\ get_reply_ref(ret.args[1]).timestamp = ret.args[3]
    /\ \E x \in reply_refs : x.parent_db_id # NoneInt /\ x.parent_db_id # x.reply_db_id

\* C13: resolve_pending(r, success, error_reason) for a registered request
\* removes the pending entry, sets the packet dict's _delivered to success,
\* leaves the packet's stored row with delivered = success and the given
\* error_reason, as the dict has them, emits one delivery_updated event and
\* returns the packet.
C13_ResolveStep ==
    (ret'.op = "resolve_pending" /\ ret'.args[1] \in DOMAIN pending) =>
        LET r == ret'.args[1]
            success == ret'.args[2]
            error_reason == ret'.args[3]
            o == pending[r].packet
            rows == {x \in packets' : x.id = tracked[o].db_id}
        IN  /\ r \notin DOMAIN pending'
            /\ ret'.val = o
            /\ heap'[o].delivered = PyStr(success)
            /\ heap'[o].error_reason = error_reason
            /\ Cardinality(rows) = 1
            /\ \A x \in rows :
                  /\ x.delivered = SqlFlag(success)
                  /\ x.error_reason = error_reason
                  /\ StoredMessage(x).delivered = heap'[o].delivered
            /\ emitted' = <<Event("delivery_updated", o)>>

C13_ResolveRegistered == [][C13_ResolveStep]_vars

\* A registered send was resolved as failed: dict and row say NO_ROUTE and
\* nothing is pending under the request id.
C13_Witness ==
    /\ ret.op = "resolve_pending"
    /\ ret.val # NoneInt
    /\ ret.args[2] = FALSE
    /\ ret.args[1] \notin DOMAIN pending
    /\ heap[ret.val].delivered = "False"
    /\ heap[ret.val].error_reason = "NO_ROUTE"
    /\ \E x \in packets :
          /\ x.id = tracked[ret.val].db_id
          /\ x.delivered = 0
          /\ x.error_reason = "NO_ROUTE"
    /\ emitted = <<Event("delivery_updated", ret.val)>>

(***************************************************************************)
(* SpecBuffer: the live mirror under adds whose store write succeeds or     *)
(* raises, and clears.                                                     *)
(***************************************************************************)
MaxAdds == 4

BufferPackets ==
    {Packet(5, IntId(1), IntId(2), 0, "TEXT_MESSAGE_APP", <<"h">>, FALSE, "None"),
     Packet(NoneInt, IntId(2), IntId(1), 0, "POSITION_APP", <<>>, FALSE, "None")}

NextBuffer ==
    \/ \E packet \in BufferPackets, ok \in BOOLEAN :
          Len(heap) < MaxAdds /\ AddPacket(packet, ok)
    \/ ClearBuffer

SpecBuffer == Init /\ [][NextBuffer]_vars

\* C14: every MessageBuffer.add appends the packet's entry at the end of the
\* mirror and notifies exactly one message_added event carrying that entry,
\* whether or not store_packet raised; it returns the id of the one row the
\* store wrote when the write succeeded, and None with the table untouched
\* when it failed; the failure never reaches the caller.
C14_AddStep ==
    ret'.op = "add_packet" =>
        LET packet == ret'.args[1]
            ok == ret'.args[2]
            last == messages'[Len(messages')]
        IN  /\ ~ret'.raised
            /\ Len(messages') >= 1
            /\ heap'[last.packet] = packet
            /\ \A i \in 1..(Len(messages') - 1) :
                  messages'[i] = messages[Len(messages) - (Len(messages') - 1) + i]
            /\ Len(emitted') = 1
            /\ emitted'[1].type = "message_added"
            /\ emitted'[1].data = last
            /\ IF ok
               THEN /\ ret'.val # NoneInt
                    /\ \E x \in packets' \ packets :
                          /\ x.id = ret'.val
                          /\ packets' = packets \cup {x}
                    /\ last.db_id = ret'.val
               ELSE /\ ret'.val = NoneInt
                    /\ packets' = packets
                    /\ "db_id" \notin DOMAIN last

C14_AddAlways == [][C14_AddStep]_vars

\* A failed add that followed a successful one: the mirror holds both entries
\* and the failed one was notified.
C14_Witness ==
    /\ ret.op = "add_packet"
    /\ ~ret.args[2]
    /\ ret.val = NoneInt
    /\ Len(messages) = 2
    /\ "db_id" \in DOMAIN messages[1]
    /\ "db_id" \notin DOMAIN messages[2]
    /\ Len(emitted) = 1
    /\ emitted[1].data = messages[2]

\* C20: the mirror never holds more than max_size entries; it holds exactly
\* the min(k, max_size) most recent of the k entries added since the last
\* clear, in the order they were added, so that the oldest is the one dropped.
C20_BoundedFifo ==
    LET k == Len(added)
        n == IF k < max_size THEN k ELSE max_size
    IN  /\ Len(messages) <= max_size
        /\ Len(messages) = n
        /\ \A i \in 1..n : messages[i] = added[k - n + i]

\* After a clear, more than max_size entries were added: the first of them
\* is gone from the mirror.
C20_Witness ==
    /\ Len(heap) > Len(added)
    /\ Len(added) = max_size + 1
    /\ Len(messages) = max_size
    /\ messages[1] = added[2]
    /\ messages[1] # added[1]

(***************************************************************************)
(* SpecObserve: an Observable with callbacks that return and callbacks that *)
(* raise.                                                                   *)
(***************************************************************************)
MaxCallbacks == 3

Callbacks == 1..MaxCallbacks

NextObserve ==
    \/ \E callback \in Callbacks : Subscribe(callback)
    \/ \E callback \in Callbacks : Unsubscribe(callback)
    \/ \E event_type \in {"update", "event"}, data \in {NoneStr, "data"} :
          Notify(event_type, data)

SpecObserve == Init /\ [][NextObserve]_vars

\* C15: a notify calls every subscribed callback exactly once, in the order
\* of subscription, with the event type and the data it was given; a callback
\* that raises neither stops the callbacks after it nor lets its exception
\* reach the notifier.
C15_NotifyStep ==
    ret'.op = "notify" =>
        /\ ~ret'.raised
        /\ Len(calls') = Len(listeners)
        /\ \A i \in DOMAIN listeners :
              calls'[i] = [callback |-> listeners[i], type |-> ret'.args[1],
                           data |-> ret'.args[2]]
        /\ \A callback \in Callbacks :
              Cardinality({i \in DOMAIN calls' : calls'[i].callback = callback})
                  = IF Subscribed(callback) THEN 1 ELSE 0

C15_NotifyAll == [][C15_NotifyStep]_vars

\* A notify with a raising callback subscribed before a returning one: both
\* were called.
C15_Witness ==
    /\ ret.op = "notify"
    /\ Len(calls) >= 2
    /\ \E i, j \in DOMAIN calls :
          /\ i < j
          /\ calls[i].callback \in Raising
          /\ calls[j].callback \notin Raising

(***************************************************************************)
(* SpecFrame: sent packets being resolved while every other store and       *)
(* buffer operation goes on around them.                                    *)
(***************************************************************************)
NextFrame ==
    \/ \E r \in {5, NoneInt} :
          /\ packets_seq < MaxStoreRows
          /\ SendText(r, StrId("^all"))
    \/ \E p \in InboundPackets :
          /\ packets_seq < MaxStoreRows
          /\ Receive(p)
    \/ \E o \in AckOutcomes : ResolvePending(5, o.success, o.error_reason)
    \/ /\ nodes = EmptyNodes
       /\ UpdateNode(IntId(2), Dict1("user", Group(Dict1("longName", <<"A">>))), now)
    \/ /\ reactions_seq < 1
       /\ StoreReaction(1, 5, StrId("!00000002"), "heart")
    \/ /\ reply_refs_seq < 1
       /\ packets # {}
       /\ StoreReplyRef(MaxStoreRows, 5, now)
    \/ GetParentMessage(MaxStoreRows)
    \/ SearchPackets(<<"h">>, DefaultLimit, NoneInt)

SpecFrame == Init /\ [][NextFrame]_vars

\* C16: the delivered and error_reason columns of a stored packet are the
\* same after every operation other than resolve_pending: storing another
\* packet, a node upsert, a reaction toggle, a reply link and the queries
\* leave them as they were.
C16_FrameStep ==
    ret'.op # "resolve_pending" =>
        \A x \in packets : \A y \in packets' :
            y.id = x.id =>
                /\ y.delivered = x.delivered
                /\ y.error_reason = x.error_reason

C16_DeliveryFrame == [][C16_FrameStep]_vars

\* A row resolved as failed, still as resolved after a later packet was
\* stored.
C16_Witness ==
    /\ ret.op = "add"
    /\ \E x \in packets :
          /\ x.id < ret.val
          /\ x.delivered = 0
          /\ x.error_reason = "NO_ROUTE"

(***************************************************************************)
(* SpecCount: counting the matches of a term against paging through them.   *)
(***************************************************************************)
NextCount ==
    \/ \E p \in SearchPacketsStored :
          /\ packets_seq < MaxPacketId
          /\ StorePacket(p)
    \/ /\ nodes = EmptyNodes
       /\ UpdateNode(IntId(2), Dict1("user", Group(Dict1("longName", <<"A", "B">>))), now)
    \/ \E term \in SearchTerms : CountSearchResults(term)

SpecCount == Init /\ [][NextCount]_vars

\* C17: the count a term gets is the number of distinct packets a caller
\* obtains by paging search_packets for that term from the newest result
\* until a page is empty, whatever the page size; no packet comes twice.
C17_CountIsPaged ==
    ret.op = "count_search_results" =>
        \A limit \in 1..MaxLimit :
            LET all == SearchAllPages(ret.args[1], limit, NoneInt)
            IN  /\ ret.val = Cardinality({all[i].id : i \in DOMAIN all})
                /\ ret.val = Len(all)

\* A count of two of three stored packets, one of them matched through the
\* name of its sender: more than one page at page size 1.
C17_Witness ==
    /\ ret.op = "count_search_results"
    /\ ret.val = 2
    /\ Cardinality(packets) = 3
    /\ count_text_matches(ret.args[1]) = 1

(***************************************************************************)
(* SpecImport: the registry under single updates and bulk imports of the    *)
(* radio's node database.                                                   *)
(***************************************************************************)
ImportRecord(num, key, value) ==
    [k \in {"num", key} |-> IF k = "num" THEN NodeNum(IntId(num)) ELSE value]

Imports ==
    {[n \in {IntId(1)} |-> ImportRecord(1, "position", Group(Dict1("lon", 2)))],
     [n \in {IntId(1)} |-> ImportRecord(1, "isFavorite", Bool(TRUE))],
     [n \in {IntId(1), IntId(2)} |->
         ImportRecord(n.v, "user", Group(Dict1("publicKey", "k")))]}

NextImport ==
    \/ \E n \in {IntId(1)}, data \in NodeUpdates, t \in {now, now + 1} :
          /\ t <= MaxTime
          /\ UpdateNode(n, data, t)
    \/ \E imported \in Imports : ImportNodes(imported)

SpecImport == Init /\ [][NextImport]_vars

\* C18: an import leaves, for every node in it, the registry entry and the
\* persisted record update_node(id, record) would have produced from the
\* same prior state (merged key by key into what the node had, last-seen set
\* to now, written to the store), and notifies one nodes_imported event.
C18_ImportStep ==
    ret'.op = "import_nodes" =>
        LET imported == ret'.args[1]
        IN  /\ \A key \in DOMAIN imported :
                   LET num == ImportedNum(imported, key)
                       id == format_node_id(num)
                       u == update_node(num, imported[key], now)
                   IN  /\ id \in DOMAIN nodes'
                       /\ nodes'[id] = u.nodes[id]
                       /\ id \in DOMAIN db_nodes'
                       /\ db_nodes'[id] = u.rows[id]
            /\ Len(emitted') = 1
            /\ emitted'[1].type = "nodes_imported"

C18_ImportAsUpdate == [][C18_ImportStep]_vars

\* What an import does: every imported node's entry is its converted record
\* alone, nothing of the node's earlier attributes is kept, the store is as
\* it was, and one nodes_imported event is notified.
C18_ImportReplacesStep ==
    ret'.op = "import_nodes" =>
        LET imported == ret'.args[1]
        IN  /\ \A key \in DOMAIN imported :
                   LET id == format_node_id(ImportedNum(imported, key))
                   IN  /\ nodes'[id] = ImportedRecord(imported[key])
                       /\ "lastHeard" \notin DOMAIN nodes'[id]
            /\ \A id \in DOMAIN nodes' :
                   (\A key \in DOMAIN imported :
                       format_node_id(ImportedNum(imported, key)) # id)
                   => id \in DOMAIN nodes /\ nodes'[id] = nodes[id]
            /\ db_nodes' = db_nodes
            /\ Len(emitted') = 1
            /\ emitted'[1].type = "nodes_imported"

C18_ImportReplaces == [][C18_ImportReplacesStep]_vars

(***************************************************************************)
(* SpecFavorite: the favorite flag of a node among merges into it.          *)
(***************************************************************************)
FavoriteNodes == NodeIds \cup {IntId(2)}

NextFavorite ==
    \/ \E n \in NodeIds, data \in NodeUpdates, t \in {now, now + 1} :
          /\ t <= MaxTime
          /\ UpdateNode(n, data, t)
    \/ \E n \in FavoriteNodes, value \in BOOLEAN : SetFavorite(n, value)

SpecFavorite == Init /\ [][NextFavorite]_vars

\* C19: a merge whose attributes carry no favorite flag leaves is_favorite of
\* every node as it was, so that after set_favorite(id, v) on a known node
\* any number of such merges leaves is_favorite(id) = v; set_favorite on a
\* known node makes is_favorite(id) = v, changes no other attribute of the
\* node and no other node, and notifies node_updated with the node's id.
C19_FavoriteStep ==
    /\ (ret'.op = "update_node" /\ "is_favorite" \notin DOMAIN ret'.args[2]) =>
          \A n \in FavoriteNodes :
              IsFavoriteIn(nodes', n) = IsFavoriteIn(nodes, n)
    /\ (ret'.op = "set_favorite" /\ format_node_id(ret'.args[1]) \in DOMAIN nodes) =>
          LET id == format_node_id(ret'.args[1])
          IN  /\ IsFavoriteIn(nodes', ret'.args[1]) = ret'.args[2]
              /\ DOMAIN nodes' = DOMAIN nodes
              /\ \A k \in DOMAIN nodes : k # id => nodes'[k] = nodes[k]
              /\ DOMAIN nodes'[id] = DOMAIN nodes[id] \cup {"is_favorite"}
              /\ \A a \in DOMAIN nodes[id] :
                    a # "is_favorite" => nodes'[id][a] = nodes[id][a]
              /\ emitted' = <<Event("node_updated", id)>>

C19_FavoriteKept == [][C19_FavoriteStep]_vars

\* A node made a favorite and merged into afterwards: it is still one.
C19_Witness ==
    /\ ret.op = "update_node"
    /\ ret.args[2] = Dict1("position", Group(Dict1("lon", 2)))
    /\ is_favorite(ret.args[1])
    /\ nodes[format_node_id(ret.args[1])]["lastHeard"] = Scalar(now)
    /\ now > 1

(***************************************************************************)
(* SpecKey: the public-key flag of a node under identity updates and        *)
(* imports, with the attributes _on_receive and the radio's node database   *)
(* carry.                                                                   *)
(***************************************************************************)
KeyUsers ==
    {Group(Dict1("publicKey", "k")),
     Group(Dict1("publicKey", "")),
     Group(Dict1("shortName", <<"a", "b">>))}

NextKey ==
    \/ \E n \in {IntId(1), IntId(2)}, user \in KeyUsers :
          UpdateNode(n, Dict1("user", user), now)
    \/ \E n \in {IntId(1), IntId(2)} : UpdateNode(n, Dict1("snr", Scalar(5)), now)
    \/ \E n \in {IntId(1), IntId(2)}, user \in KeyUsers :
          ImportNodes([k \in {n} |-> ImportRecord(n.v, "user", user)])
    \/ ImportNodes([k \in {IntId(1)} |-> ImportRecord(1, "snr", Scalar(5))])

SpecKey == Init /\ [][NextKey]_vars

\* C21: in every registry state, a node whose user block holds a publicKey
\* field has has_public_key, and it is True exactly when the field's value is
\* not empty.
C21_KeyFlag ==
    \A id \in DOMAIN nodes :
        ("user" \in DOMAIN nodes[id] /\ nodes[id]["user"].d
            /\ "publicKey" \in DOMAIN nodes[id]["user"].g) =>
            /\ "has_public_key" \in DOMAIN nodes[id]
            /\ nodes[id]["has_public_key"].b
                  = (nodes[id]["user"].g["publicKey"] # "")

\* A node that got its key, then an identity update without the field: the
\* merged block still holds the key and the flag is True; another node's key
\* is empty and its flag False.
C21_Witness ==
    /\ ret.op = "update_node"
    /\ ret.args[2] = Dict1("user", Group(Dict1("shortName", <<"a", "b">>)))
    /\ LET node == nodes[format_node_id(ret.args[1])]
       IN  /\ "user" \in DOMAIN node
           /\ DOMAIN node["user"].g = {"publicKey", "shortName"}
           /\ node["has_public_key"].b
    /\ \E id \in DOMAIN nodes :
          /\ "user" \in DOMAIN nodes[id]
          /\ nodes[id]["user"].g = Dict1("publicKey", "")
          /\ ~nodes[id]["has_public_key"].b

\* C22: through the ingest path a reaction text toggles the reactions table,
\* and reaction_updated is notified with added the result of the toggle, only
\* when its emoji is a supported one and its target protocol id is that of a
\* stored packet; otherwise the table is as it was and no reaction_updated is
\* notified. Every stored reaction has a supported emoji and refers to a
\* stored packet with its protocol id.
C22_StoredValid ==
    \A r \in reactions :
        /\ r.emoji \in SUPPORTED_REACTIONS
        /\ \E x \in packets :
              x.id = r.message_db_id /\ x.packet_id = r.message_packet_id

C22_ReactionStep ==
    ret'.op \in {"on_receive", "submit"} =>
        LET packet == ret'.args[1]
            is_reaction == /\ ret'.op = "on_receive"
                           /\ packet.decoded.portnum \in TextPortnums
                           /\ REACTION_PATTERN(packet.decoded.text).matched
            m == REACTION_PATTERN(packet.decoded.text)
            accepted == /\ is_reaction
                        /\ Len(m.group2) = 1
                        /\ m.group2[1] \in SUPPORTED_REACTIONS
                        /\ \E x \in packets : x.packet_id = ParseInt(m.group1)
        IN  IF accepted
            THEN /\ \/ /\ Cardinality(reactions') = Cardinality(reactions) + 1
                       /\ reactions \subseteq reactions'
                       /\ emitted'[1].data.added = TRUE
                    \/ /\ Cardinality(reactions') = Cardinality(reactions) - 1
                       /\ reactions' \subseteq reactions
                       /\ emitted'[1].data.added = FALSE
                 /\ Len(emitted') = 1
                 /\ emitted'[1].type = "reaction_updated"
                 /\ emitted'[1].data.emoji = m.group2[1]
                 /\ emitted'[1].data.message_packet_id = ParseInt(m.group1)
            ELSE /\ reactions' = reactions
                 /\ \A i \in DOMAIN emitted' : emitted'[i].type # "reaction_updated"

C22_ReactionGate == [][C22_ReactionStep]_vars /\ []C22_StoredValid

\* A supported reaction to a stored packet was toggled on, and one before it
\* had no stored target: the table holds the one row.
C22_Witness ==
    /\ ret.op = "on_receive"
    /\ REACTION_PATTERN(ret.args[1].decoded.text).matched
    /\ Cardinality(reactions) = 1
    /\ Len(emitted) = 1
    /\ emitted[1].type = "reaction_updated"
    /\ emitted[1].data.added = TRUE
    /\ reactions_seq = 1
    /\ packets # {}

(***************************************************************************)
(* SpecFallback: the mirror's filters against the store's queries, over     *)
(* packets that went through add and are all still in the mirror.           *)
(***************************************************************************)
\* packet['to'] of a broadcast: 0xffffffff
BroadcastNum == WideId(65535, 65535)

FallbackPackets ==
    {Packet(5, IntId(1), StrId("^all"), 0, "TEXT_MESSAGE_APP", <<"h">>, FALSE, "None"),
     Packet(5, IntId(2), BroadcastNum, 1, "1", <<"h">>, FALSE, "None"),
     Packet(5, IntId(2), IntId(1), 0, "TEXT_MESSAGE_APP", <<"h">>, FALSE, "None"),
     Packet(5, StrId("!00000001"), IntId(2), 0, "TEXT_MESSAGE_APP", <<"h">>, TRUE, "None"),
     Packet(5, IntId(1), StrId("^all"), 0, "TELEMETRY_APP", <<>>, FALSE, "None"),
     [id |-> 6, fromId |-> StrId("!00000002"), toId |-> StrId("^all"), channel |-> 0,
      decoded |-> [portnum |-> "TEXT_MESSAGE_APP", text |-> <<"h">>],
      tx |-> FALSE, delivered |-> "None", error_reason |-> NoneStr]}

FallbackNodes == {IntId(1), StrId("!00000002"), StrId("^all")}

NextFallback ==
    \/ \E p \in FallbackPackets :
          /\ Len(heap) < max_size
          /\ Receive(p)
    \/ \E channel \in {NoneInt, 0, 1}, broadcast_only \in BOOLEAN :
          BufferGetTextMessages(channel, broadcast_only)
    \/ \E n \in FallbackNodes, channel \in {NoneInt, 0, 1}, dm_only \in BOOLEAN :
          GetTextMessagesForNode(n, channel, dm_only)

SpecFallback == Init /\ [][NextFallback]_vars

\* C23: over packets held in the mirror and in the store, the mirror's
\* get_text_messages selects the packets the store's get_text_messages
\* selects, and the mirror's get_text_messages_for_node those of the store's
\* get_messages_for_node, in the same order (the store's limit being no
\* smaller than the number of packets).
C23_SameSelection ==
    /\ ret.op = "buffer_get_text_messages" =>
          LET stored == get_text_messages(ret.args[1], DefaultLimit, NoneInt, ret.args[2])
          IN  /\ Len(ret.val) = Len(stored)
              /\ \A i \in DOMAIN stored : ret.val[i].db_id = stored[i].id
    /\ ret.op = "get_text_messages_for_node" =>
          LET stored == get_messages_for_node(ret.args[1], DefaultLimit, NoneInt,
                                              ret.args[2], ret.args[3])
          IN  /\ Len(ret.val) = Len(stored)
              /\ \A i \in DOMAIN stored : ret.val[i].db_id = stored[i].id

\* The selections are the same when every packet carries its 'from' and 'to'
\* keys.
C23_SameSelectionKeyed ==
    (\A i \in DOMAIN heap : {"from", "to"} \subseteq DOMAIN heap[i]) => C23_SameSelection

\* C24: a resolve_pending that finds its request changes the delivered and
\* error_reason columns of the row of the packet registered under it and of
\* no other row: earlier sent packets with the same protocol id and received
\* packets keep theirs.
C24_OnlyOwnStep ==
    (ret'.op = "resolve_pending" /\ ret'.val # NoneInt) =>
        \A x \in packets : \A y \in packets' :
            (y.id = x.id /\ x.id # tracked[ret'.val].db_id) =>
                /\ y.delivered = x.delivered
                /\ y.error_reason = x.error_reason

C24_OnlyOwnRow == [][C24_OnlyOwnStep]_vars

\* The rows a resolution leaves alone: received packets and packets with
\* another protocol id.
C24_OthersStep ==
    (ret'.op = "resolve_pending" /\ ret'.val # NoneInt) =>
        \A x \in packets : \A y \in packets' :
            (y.id = x.id /\ (x.is_tx = 0 \/ x.packet_id # ret'.args[1])) =>
                /\ y.delivered = x.delivered
                /\ y.error_reason = x.error_reason

C24_OtherIdsKept == [][C24_OthersStep]_vars

(***************************************************************************)
(* SpecRace: messages being sent from the chat input while the radio's      *)
(* thread reports on them; each send gets a request id not used before.     *)
(***************************************************************************)
NextRace ==
    \/ \E r \in RequestIds :
          /\ packets_seq < MaxStoreRows
          /\ \A i \in DOMAIN heap : heap[i].id # r
          /\ r \notin radio
          /\ UiSend(r)
    \/ UiAdd
    \/ UiAddPending
    \/ \E r \in RequestIds, error \in {"NONE", "NO_ROUTE"} : OnReceiveRouting(r, error)

SpecRace == Init /\ [][NextRace]_vars

\* C25: once the submit handler is through and the radio's report on a sent
\* message has been processed, the message is resolved: it is not pending and
\* its delivery status is set, whenever after the send the report came.
C25_NoLostAck ==
    ui.pc = "idle" =>
        \A o \in DOMAIN tracked :
            heap[o].id \notin radio =>
                /\ heap[o].delivered # "None"
                /\ heap[o].id \notin DOMAIN pending

\* A report that comes when the message is registered resolves it.
C25_RegisteredStep ==
    (ret'.op = "on_receive_routing" /\ ret'.args[1] \in DOMAIN pending) =>
        /\ ret'.val = pending[ret'.args[1]].packet
        /\ heap'[ret'.val].delivered # "None"
        /\ ret'.args[1] \notin DOMAIN pending'

C25_RegisteredResolved == [][C25_RegisteredStep]_vars

\* C26: when _on_receive or the chat input has handled a reply, the
\* subscriber notified of its message_added found the reply's ref in the
\* store when it asked during the notification.
C26_SeenStep ==
    (/\ ret'.op \in {"on_receive", "submit"}
     /\ seen' # <<>>
     /\ GetReplyRefIn(reply_refs', seen'[1].db_id).found)
        => seen'[1].ref.found

C26_LinkSeenInNotify == [][C26_SeenStep]_vars

\* The reply's ref is in the store when the handler is through, and was not
\* there yet while add was notifying.
C26_LateStep ==
    (/\ ret'.op \in {"on_receive", "submit"}
     /\ seen' # <<>>
     /\ Truthy(reply_to_packet_id(heap'[Len(heap')])))
        => /\ ~seen'[1].ref.found
           /\ GetReplyRefIn(reply_refs', seen'[1].db_id).found

C26_LinkAfterNotify == [][C26_LateStep]_vars

(***************************************************************************)
(* SpecPanel: a LogPanel over a store that starts empty, with live          *)
(* packets, history loads and page loads in any order.                      *)
(***************************************************************************)
MaxPanelRows == 4

PanelPackets ==
    {Packet(id, IntId(2), StrId("^all"), 0, portnum, <<"h", "i">>, FALSE, "None") :
        id \in {5}, portnum \in {"TEXT_MESSAGE_APP", "TELEMETRY_APP"}}

NextPanel ==
    \/ \E p \in PanelPackets :
          /\ packets_seq < MaxPanelRows
          /\ LiveMessage(p)
    \/ LoadHistory
    \/ LoadMoreHistory
    \/ FinishLoading

SpecPanel == Init /\ [][NextPanel]_vars

AscendingIds(ids) == \A i, j \in DOMAIN ids : i < j => ids[i] < ids[j]

\* C27: the displayed entries show no stored packet twice and are in
\* ascending order of database id, whatever the order of history loads, live
\* packets and page loads.
C27_NoDuplicateRows == AscendingIds(panel.entries)

\* A page load that has an oldest id to page from, or nothing displayed,
\* keeps the entries ascending; so does a live packet.
C27_PagedStep ==
    (/\ ret'.op \in {"load_more_history", "live_message", "load_history",
                     "finish_loading"}
     /\ AscendingIds(panel.entries)
     /\ (panel.oldest_id = NoneInt => panel.entries = <<>>))
        => /\ AscendingIds(panel'.entries)
           /\ (ret'.op # "live_message" =>
                 (panel'.oldest_id = NoneInt => panel'.entries = <<>>))

C27_PagedFromOldest == [][C27_PagedStep]_vars

(***************************************************************************)
(* SpecParent: packets are stored, each linked at most once as a reply, as  *)
(* its caller links the row that add just returned, and the store is        *)
(* cleared in between.                                                      *)
(***************************************************************************)
NextParent ==
    \/ \E p \in ReplyPackets :
          /\ packets_seq < MaxPacketId
          /\ StorePacket(p)
    \/ \E r \in Unlinked, P \in ReplyProtocolIds : StoreReplyRef(r, P, now)
    \/ /\ packets # {}
       /\ ClearMessages
    \/ /\ packets # {}
       /\ ClearAllData

SpecParent == Init /\ [][NextParent]_vars

\* C28: every reply ref whose parent_db_id is not null names a stored packet
\* with the ref's protocol packet id, and get_parent_message of the reply is
\* that packet, not another packet with the same protocol id.
C28_ParentExact ==
    \A x \in reply_refs :
        x.parent_db_id # NoneInt =>
            \E y \in packets :
                /\ y.id = x.parent_db_id
                /\ y.packet_id = x.parent_packet_id
                /\ get_parent_message(x.reply_db_id) = StoredMessage(y)

\* A resolved reply ref while another stored packet has the parent's protocol
\* id, in a store that was cleared before.
C28_Witness ==
    /\ packets_seq > Cardinality(packets)
    /\ \E x \in reply_refs, y \in packets :
          /\ x.parent_db_id # NoneInt
          /\ y.packet_id = x.parent_packet_id
          /\ y.id # x.parent_db_id

(***************************************************************************)
(* SpecPreview: packets of two senders, replies linked to them, the         *)
(* registry learning a sender's name, and a chat log drawing the replies.   *)
(***************************************************************************)
PreviewPackets ==
    {Packet(5, IntId(1), StrId("^all"), 0, "TEXT_MESSAGE_APP", <<"h", "i">>,
            FALSE, "None"),
     Packet(6, IntId(2), StrId("^all"), 0, "TEXT_MESSAGE_APP", <<"y", "o">>,
            FALSE, "None")}

NextPreview ==
    \/ \E p \in PreviewPackets :
          /\ packets_seq < MaxPacketId
          /\ StorePacket(p)
    \/ \E r \in Unlinked, P \in ReplyProtocolIds : StoreReplyRef(r, P, now)
    \/ \E n \in {IntId(1)} :
          /\ format_node_id(n) \notin DOMAIN nodes
          /\ UpdateNode(n, [k \in {"user"} |->
                               Group([j \in {"shortName"} |-> <<"a", "b">>])], now)
    \/ \E r \in {x.reply_db_id : x \in reply_refs} : GetReplyPreview(r)

SpecPreview == Init /\ [][NextPreview]_vars

\* C29: the preview of a displayed reply whose ref has a parent_db_id that is
\* still stored is built from that parent packet: its sender's name and its
\* text, not the fallback form.
C29_PreviewOfParent ==
    ret.op = "get_reply_preview" =>
        LET ref == get_reply_ref(ret.args[1])
        IN  \A y \in packets :
                (ref.found /\ ref.parent_db_id # NoneInt /\ y.id = ref.parent_db_id)
                    => ret.val = PreviewOf(StoredMessage(y))

\* What the preview is built from: the parent of the parent, when the parent
\* is itself a reply with a stored parent, and otherwise nothing, which gives
\* the fallback form.
C29_PreviewOfGrandparent ==
    ret.op = "get_reply_preview" =>
        LET ref == get_reply_ref(ret.args[1])
            above == get_parent_message(ref.parent_db_id)
        IN  (ref.found /\ ref.parent_db_id # NoneInt) =>
                ret.val = IF above # NoMessage THEN PreviewOf(above)
                          ELSE [kind |-> "fallback",
                                packet_id |-> ref.parent_packet_id]

(***************************************************************************)
(* SpecDurable: merges into the nodes, favorite flags set, and the registry *)
(* built anew from the store.                                               *)
(***************************************************************************)
NextDurable ==
    \/ \E n \in NodeIds, data \in NodeUpdates, t \in {now, now + 1} :
          /\ t <= MaxTime
          /\ UpdateNode(n, data, t)
    \/ \E n \in FavoriteNodes, value \in BOOLEAN : SetFavorite(n, value)
    \/ /\ ret.op # "rebuild"
       /\ Rebuild

SpecDurable == Init /\ [][NextDurable]_vars

\* C30: when the registry is built anew from the store right after
\* set_favorite(id, v) on a known node, is_favorite(id) is v.
C30_DurableStep ==
    (/\ ret.op = "set_favorite"
     /\ format_node_id(ret.args[1]) \in DOMAIN nodes
     /\ ret'.op = "rebuild")
        => IsFavoriteIn(nodes', ret.args[1]) = ret.args[2]

C30_FavoriteDurable == [][C30_DurableStep]_vars

\* The registry built anew right after update_node is the registry as
\* it was for the node updated: the merge wrote the node to the store.
C30_UpdateStep ==
    (ret.op = "update_node" /\ ret'.op = "rebuild")
        => LET n == format_node_id(ret.args[1])
           IN  n \in DOMAIN nodes' /\ nodes'[n] = nodes[n]

C30_UpdateDurable == [][C30_UpdateStep]_vars

====
